---------------------------- MODULE Spec2Model ----------------------------
(***************************************************************************)
(* Verification model of PypeIt's 2D co-addition engine                    *)
(* (pypeit/core/coadd2d.py) and reduction output writer                    *)
(* (pypeit/core/save.py).                                                  *)
(*                                                                         *)
(* Conventions                                                             *)
(*  - An ndarray is a record [shape |-> <<d1,..,dk>>, at |-> f] where f    *)
(*    maps every index tuple of Idx(shape) to the element.  Index tuples   *)
(*    are 1-based here; results that the code returns as array indices     *)
(*    (get_wave_ind) are converted to numpy's 0-based indices.             *)
(*  - Real numbers are exact: a quotient is the reduced fraction <<n,d>>.  *)
(*  - msgs.error raises, so a call that reaches it ends with               *)
(*    status = "fatal"; an uncaught Python/numpy exception ends with the   *)
(*    exception's name as status.                                          *)
(***************************************************************************)
EXTENDS Integers, Sequences, FiniteSets, TLC

VARIABLES wc, bw, ec, rb, wi, co, fits, sv, sa, oi, ft, bp, ql, rt, cd, pw, ls, gr, pi, bo

\* the call records of the coadd2d functions and of save_2d_images
vars1 == <<wc, bw, ec, rb, wi, co, fits, sv>>

\* the call records of save_all, save_obj_info, the KCWI spectrograph, the
\* quick-look script and the Coadd2d drivers
vars2 == <<sa, oi, ft, bp, ql, rt, cd, pw>>

vars3 == <<ls, gr, pi, bo>>

vars == <<vars1, vars2, vars3>>

\* the state of a function of the module before it is called
Idle == [op |-> "idle"]

\* Python's None where an ndarray is expected
None == [shape |-> <<>>, at |-> <<>>]

---------------------------------------------------------------------------
(* Bounds of the explored input space                                      *)

MaxImgs == 3
NSpec == 2
NSpat == 1
MaxDim == 2
MaxRbImgs == 1
RbSpec == 3
RbSpat == 3
MaxList == 2
MaxSmallGrid == 3
MaxExp == 2
MaxRows == 3
MaxShift == 2
MaxCalls == 3
MaxObjs == 2
MaxFrames == 2

---------------------------------------------------------------------------
(* ndarray helpers                                                         *)

Max2(a, b) == IF a >= b THEN a ELSE b

RECURSIVE GCD(_, _)
GCD(a, b) == IF b = 0 THEN a ELSE GCD(b, a % b)

\* a / b for a >= 0, b > 0 as a reduced fraction
Div(a, b) == LET g == GCD(a, b) IN <<a \div g, b \div g>>

Idx(shape) ==
    CASE Len(shape) = 1 -> {<<i>> : i \in 1..shape[1]}
      [] Len(shape) = 2 -> {<<i, j>> : i \in 1..shape[1], j \in 1..shape[2]}
      [] Len(shape) = 3 -> {<<i, j, k>> : i \in 1..shape[1], j \in 1..shape[2], k \in 1..shape[3]}
      [] OTHER -> {}

MkArr(shape, at) == [shape |-> shape, at |-> at]

ndim(a) == Len(a.shape)

np_ones(shape) == MkArr(shape, [t \in Idx(shape) |-> 1])

\* a boolean used as a number counts as 0/1
B2I(x) == IF x THEN 1 ELSE 0

\* sum of the values of a function with a finite domain
RECURSIVE SumFn(_, _)
SumFn(f, S) ==
    IF S = {} THEN 0
    ELSE LET x == CHOOSE y \in S : TRUE IN f[x] + SumFn(f, S \ {x})

\* np.sum(a, axis=0) of a rank-3 array
np_sum0(a) ==
    MkArr(Tail(a.shape), [t \in Idx(Tail(a.shape)) |-> SumFn([i \in 1..a.shape[1] |-> a.at[<<i>> \o t]], 1..a.shape[1])])

\* mutant of np_any0: np.all(a, axis=0)
np_any0_all(a) ==
    MkArr(Tail(a.shape), [t \in Idx(Tail(a.shape)) |-> \A i \in 1..a.shape[1] : a.at[<<i>> \o t]])

\* np.any(a, axis=0) of a rank-3 boolean array
np_any0(a) ==
    MkArr(Tail(a.shape), [t \in Idx(Tail(a.shape)) |-> \E i \in 1..a.shape[1] : a.at[<<i>> \o t]])

\* numpy's elementwise broadcasting of two equal-rank shapes
Broadcastable(s1, s2) ==
    /\ Len(s1) = Len(s2)
    /\ \A k \in 1..Len(s1) : s1[k] = s2[k] \/ s1[k] = 1 \/ s2[k] = 1

BShape(s1, s2) == [k \in 1..Len(s1) |-> Max2(s1[k], s2[k])]

Clamp(t, s) == [k \in 1..Len(t) |-> IF s[k] = 1 THEN 1 ELSE t[k]]

\* a * b with numpy broadcasting

np_mul(a, b) ==
    MkArr(BShape(a.shape, b.shape),
        [t \in Idx(BShape(a.shape, b.shape)) |-> a.at[Clamp(t, a.shape)] * b.at[Clamp(t, b.shape)]])

\* mask.astype(int)
astype_int(mask) == MkArr(mask.shape, [t \in Idx(mask.shape) |-> B2I(mask.at[t])])

---------------------------------------------------------------------------
(* img_list_error_check: only img.shape and img.ndim are read, so the      *)
(* lists are given by the shapes of their images.                          *)

img_list_error_check(shape_sci_list, shape_var_list) ==
    IF \E i \in DOMAIN shape_sci_list : Len(shape_sci_list[i]) < 2
    THEN [status |-> "fatal", msg |-> "Dimensionality of an image in sci_list is < 2"]
    ELSE IF \E i \in DOMAIN shape_var_list : Len(shape_var_list[i]) < 2
    THEN [status |-> "fatal", msg |-> "Dimensionality of an image in var_list is < 2"]
    ELSE IF \E i \in DOMAIN shape_sci_list :
               \/ shape_sci_list[i] # shape_sci_list[1]
               \/ \E j \in DOMAIN shape_var_list :
                     \/ shape_var_list[j] # shape_var_list[1]
                     \/ shape_sci_list[i] # shape_var_list[j]
    THEN [status |-> "fatal", msg |-> "different dimensions"]
    ELSE IF shape_sci_list = <<>>
    THEN [status |-> "IndexError", msg |-> "list index out of range"]
    ELSE [status |-> "ok", shape |-> shape_sci_list[1]]

---------------------------------------------------------------------------
(* broadcast_weights                                                       *)

\* size of an einsum label carried by two operands (size-1 axes broadcast);
\* 0 when the operands disagree, which numpy reports as a ValueError
EinsumDim(a, b) == IF a = b THEN a ELSE IF a = 1 THEN b ELSE IF b = 1 THEN a ELSE 0

broadcast_weights(weights, shape) ==
    IF ndim(weights) = 1
    THEN IF Len(shape) \in {2, 3}
         THEN LET n == EinsumDim(weights.shape[1], shape[1])
                  oshape == <<n>> \o Tail(shape)
              IN  IF n = 0 THEN [status |-> "ValueError"]
                  ELSE [status |-> "ok",
                        weights_stack |->
                            MkArr(oshape, [t \in Idx(oshape) |-> weights.at[Clamp(<<t[1]>>, weights.shape)]])]
         ELSE [status |-> "fatal"]
    ELSE IF ndim(weights) = 2
    THEN IF Len(shape) = 2
         THEN IF weights.shape # shape THEN [status |-> "fatal"]
              ELSE [status |-> "ok", weights_stack |-> weights]
         ELSE IF Len(shape) = 3
         THEN [status |-> "ok",
               weights_stack |->
                   MkArr(weights.shape \o <<shape[3]>>, [t \in Idx(weights.shape \o <<shape[3]>>) |-> weights.at[<<t[1], t[2]>>]])]
         ELSE [status |-> "UnboundLocalError"]
    ELSE IF ndim(weights) = 3
    THEN IF weights.shape # shape THEN [status |-> "fatal"]
         ELSE [status |-> "ok", weights_stack |-> weights]
    ELSE [status |-> "fatal"]

---------------------------------------------------------------------------
(* weighted_combine                                                        *)

ShapesOf(img_list) == [i \in DOMAIN img_list |-> img_list[i].shape]

\* mutant of reshape1: the stack is returned with its exposure axis
reshape1_keep_axis(stack, img_shape) == stack

\* stack.reshape(img_shape) of a one-exposure stack
reshape1(stack, img_shape) == MkArr(img_shape, [t \in Idx(img_shape) |-> stack.at[<<1>> \o t]])

\* weights_sum + (weights_sum == 0.0)
zero_guard(weights_sum) == weights_sum + (IF weights_sum = 0 THEN 1 ELSE 0)

\* mutant of combine_sci: the weighted sum is not normalised
combine_sci_unnormalised(sci_stack, weights_mask_stack, weights_sum) ==
    LET num == np_sum0(np_mul(sci_stack, weights_mask_stack))
    IN  MkArr(num.shape, [t \in Idx(num.shape) |-> Div(num.at[t], 1)])

\* np.sum(sci_stack*weights_mask_stack, axis=0)/(weights_sum + (weights_sum == 0.0))
combine_sci(sci_stack, weights_mask_stack, weights_sum) ==
    LET num == np_sum0(np_mul(sci_stack, weights_mask_stack))
    IN  MkArr(num.shape, [t \in Idx(num.shape) |-> Div(num.at[t], zero_guard(weights_sum.at[t]))])

\* np.sum(var_stack*weights_mask_stack**2, axis=0)/(weights_sum + (weights_sum == 0.0))**2
combine_var(var_stack, weights_mask_stack, weights_sum) ==
    LET num == np_sum0(np_mul(var_stack, np_mul(weights_mask_stack, weights_mask_stack)))
    IN  MkArr(num.shape, [t \in Idx(num.shape) |-> Div(num.at[t],
                                      zero_guard(weights_sum.at[t]) * zero_guard(weights_sum.at[t]))])

\* the statements after the choice of mask_stack (lines 131-145)
combine_masked(weights, shape, sci_list, var_list, mask_stack, warn) ==
    LET nused == np_sum0(astype_int(mask_stack))
        bwres == broadcast_weights(weights, shape)
    IN  IF bwres.status # "ok" THEN [status |-> bwres.status, warn |-> warn]
        ELSE IF ~Broadcastable(bwres.weights_stack.shape, mask_stack.shape)
        THEN [status |-> "ValueError", warn |-> warn]
        ELSE
        LET weights_mask_stack == np_mul(bwres.weights_stack, astype_int(mask_stack))
            weights_sum == np_sum0(weights_mask_stack)
        IN  [status |-> "ok", warn |-> warn,
             sci_list_out |-> [i \in DOMAIN sci_list |->
                                  combine_sci(sci_list[i], weights_mask_stack, weights_sum)],
             var_list_out |-> [i \in DOMAIN var_list |->
                                  combine_var(var_list[i], weights_mask_stack, weights_sum)],
             outmask |-> np_any0(mask_stack),
             nused |-> nused]

\* clipped_mask stands for np.invert(data_clipped.mask), the good-pixel mask
\* that astropy's SigmaClip returns; sigma_clip_stack is None or an array.
weighted_combine(weights, sci_list, var_list, inmask_stack, sigma_clip, sigma_clip_stack, clipped_mask) ==
    LET chk == img_list_error_check(ShapesOf(sci_list), ShapesOf(var_list)) IN
    IF chk.status # "ok" THEN [status |-> chk.status, warn |-> {}]
    ELSE
    LET shape == chk.shape
        nimgs == shape[1]
        img_shape == Tail(shape)
    IN  IF nimgs = 1
        THEN [status |-> "ok",
              warn |-> {"Cannot combine a single image. Returning input images"},
              sci_list_out |-> [i \in DOMAIN sci_list |-> reshape1(sci_list[i], img_shape)],
              var_list_out |-> [i \in DOMAIN var_list |-> reshape1(var_list[i], img_shape)],
              outmask |-> reshape1(inmask_stack, img_shape),
              nused |-> astype_int(reshape1(inmask_stack, img_shape))]
        ELSE IF sigma_clip /\ nimgs >= 3
        THEN IF sigma_clip_stack = None
             THEN [status |-> "fatal", warn |-> {}]
             ELSE combine_masked(weights, shape, sci_list, var_list, clipped_mask, {})
        ELSE combine_masked(weights, shape, sci_list, var_list, inmask_stack,
                            IF sigma_clip /\ nimgs < 3
                            THEN {"Sigma clipping requested, but you cannot sigma clip with less than 3 images"}
                            ELSE {})

---------------------------------------------------------------------------
(* Inputs of weighted_combine                                              *)

StackShape(n) == <<n, NSpec, NSpat>>

\* science stacks: constant, per-exposure ramp, and a pixel-dependent pattern
SciPattern == {"flat", "ramp", "mixed"}

SciStack(pat, n) ==
    MkArr(StackShape(n),
        [t \in Idx(StackShape(n)) |-> CASE pat = "flat" -> 2
                     [] pat = "ramp" -> t[1] - 1
                     [] pat = "mixed" -> t[1] * t[1] + 2 * t[2] + 3 * t[3]])

VarStack(n) == MkArr(StackShape(n), [t \in Idx(StackShape(n)) |-> t[1] + t[2]])

\* per-exposure mask images: all good, all bad, alternating pixels, and one
\* bad pixel; a mask stack takes one of them for every exposure
MaskKind == {"good", "bad", "checker", "corner"}

MaskStack(kinds) ==
    MkArr(StackShape(Len(kinds)),
        [t \in Idx(StackShape(Len(kinds))) |-> CASE kinds[t[1]] = "good" -> TRUE
                     [] kinds[t[1]] = "bad" -> FALSE
                     [] kinds[t[1]] = "checker" -> (t[2] + t[3]) % 2 = 0
                     [] kinds[t[1]] = "corner" -> ~(t[2] = 1 /\ t[3] = 1)])

Masks(n) == {MaskStack(kinds) : kinds \in [1..n -> MaskKind]}

\* explored outcomes of the sigma clipping of a stack with good-pixel mask m:
\* nothing is rejected, or one good sample is rejected
ClipOutcomes(m) ==
    {m} \cup {[m EXCEPT !.at[t] = FALSE] : t \in {u \in Idx(m.shape) : m.at[u]}}

WeightKind == {"ones1", "ramp1", "rank2", "ones3", "rank2long"}

Weights(kind, n) ==
    CASE kind = "ones1" -> np_ones(<<n>>)
      [] kind = "ramp1" -> MkArr(<<n>>, [t \in Idx(<<n>>) |-> t[1]])
      [] kind = "rank2" -> MkArr(<<n, NSpec>>, [t \in Idx(<<n, NSpec>>) |-> t[1] + t[2]])
      [] kind = "ones3" -> np_ones(StackShape(n))
      [] kind = "rank2long" -> MkArr(<<n, NSpec + 1>>, [t \in Idx(<<n, NSpec + 1>>) |-> t[1] + t[2]])

\* sci_list / var_list layouts: K science stacks, L variance stacks, the
\* last layout with a variance stack of another shape
ListForm == {"s", "sv", "ssv", "sv_mismatch"}

SciList(form, pat, n) ==
    IF form = "ssv"
    THEN <<SciStack(pat, n), MkArr(StackShape(n), [t \in Idx(StackShape(n)) |-> SciStack(pat, n).at[t] + t[1]])>>
    ELSE <<SciStack(pat, n)>>

VarList(form, n) ==
    CASE form = "s" -> <<>>
      [] form \in {"sv", "ssv"} -> <<VarStack(n)>>
      [] form = "sv_mismatch" -> <<np_ones(<<n, NSpec + 1, NSpat>>)>>

\* explored pairings of a weight array with a list layout
Variant ==
    {<<"ones1", "s">>, <<"ones1", "ssv">>, <<"ramp1", "sv">>, <<"rank2", "sv">>,
     <<"ones3", "ssv">>, <<"rank2long", "s">>, <<"ones1", "sv_mismatch">>}

WeightedCombine ==
    \E n \in 1..MaxImgs, pat \in SciPattern, kind \in WeightKind, form \in ListForm,
       sigma_clip \in BOOLEAN, clipstack \in {"None", "given"} :
      /\ wc = Idle
      /\ <<kind, form>> \in Variant
      /\ \E inmask_stack \in Masks(n) :
        LET clips == sigma_clip /\ n >= 3 /\ clipstack = "given" /\ form # "sv_mismatch"
            sci_list == SciList(form, pat, n)
        IN
        \* the sigma-clipping branch is explored on a reduced family of inputs
        /\ (sigma_clip /\ n >= 3) => (pat = "ramp" /\ kind = "ones1" /\ form = "s")
        /\ (~sigma_clip) => clipstack = "None"
        /\ \E clipped_mask \in (IF clips THEN ClipOutcomes(inmask_stack) ELSE {inmask_stack}) :
             wc' = [op |-> "weighted_combine",
                    in |-> [weights |-> Weights(kind, n), sci_list |-> sci_list,
                            var_list |-> VarList(form, n), inmask_stack |-> inmask_stack,
                            sigma_clip |-> sigma_clip,
                            sigma_clip_stack |-> IF clipstack = "None" THEN None ELSE sci_list[1]],
                    out |-> weighted_combine(Weights(kind, n), sci_list, VarList(form, n),
                                             inmask_stack, sigma_clip,
                                             IF clipstack = "None" THEN None ELSE sci_list[1],
                                             clipped_mask)]
        /\ UNCHANGED <<bw, ec, rb, wi, co, fits, sv, vars2, vars3>>

Init ==
    /\ wc = Idle /\ bw = Idle /\ ec = Idle /\ rb = Idle
    /\ wi = Idle /\ co = Idle /\ fits = Idle /\ sv = Idle
    /\ sa = Idle /\ oi = Idle /\ ft = Idle /\ bp = Idle
    /\ ql = Idle /\ rt = Idle /\ cd = Idle /\ pw = Idle
    /\ ls = Idle /\ gr = Idle /\ pi = Idle /\ bo = Idle

SpecCombine == Init /\ [][WeightedCombine]_vars

---------------------------------------------------------------------------
(* Claims about weighted_combine (checked under SpecCombine)               *)

wcCalled == wc.op = "weighted_combine"

wcShapesAgree ==
    img_list_error_check(ShapesOf(wc.in.sci_list), ShapesOf(wc.in.var_list)).status = "ok"

wcShape == wc.in.sci_list[1].shape
wcN == wcShape[1]
wcImgShape == Tail(wcShape)

\* the weight array has one of the three documented shapes
wcWeightsConform ==
    wc.in.weights.shape \in {<<wcN>>, <<wcN, wcShape[2]>>, wcShape}

wcGoodExposures(t) == {i \in 1..wcN : wc.in.inmask_stack.at[<<i>> \o t]}

C1_Pre ==
    /\ wcCalled /\ wcShapesAgree /\ wcN >= 2 /\ ~wc.in.sigma_clip
    /\ wcWeightsConform
    /\ \A t \in Idx(wc.in.weights.shape) : wc.in.weights.at[t] = 1
    /\ \A t \in Idx(wcShape) : wc.in.inmask_stack.at[t]

\* C1: without sigma clipping, N >= 2 stacks of one shape, every weight 1 and
\* an all-good mask: every combined science image is the pixelwise mean over
\* the N exposures, nused = N at every pixel and outmask is true everywhere.
C1_MeanOfAllGood ==
    C1_Pre =>
        /\ wc.out.status = "ok"
        /\ wc.out.outmask.shape = wcImgShape /\ wc.out.nused.shape = wcImgShape
        /\ \A k \in DOMAIN wc.in.sci_list :
              /\ wc.out.sci_list_out[k].shape = wcImgShape
              /\ \A t \in Idx(wcImgShape) :
                    wc.out.sci_list_out[k].at[t] =
                        Div(SumFn([i \in 1..wcN |-> wc.in.sci_list[k].at[<<i>> \o t]], 1..wcN), wcN)
        /\ \A t \in Idx(wcImgShape) : wc.out.nused.at[t] = wcN /\ wc.out.outmask.at[t]

\* three exposures, two science stacks, a mean that is not an integer
C1_Witness ==
    /\ C1_Pre /\ wcN = 3 /\ Len(wc.in.sci_list) = 2 /\ wc.out.status = "ok"
    /\ \E t \in Idx(wcImgShape) : wc.out.sci_list_out[1].at[t][2] # 1

C2_Pre ==
    /\ wcCalled /\ wcShapesAgree /\ wcN >= 2 /\ ~wc.in.sigma_clip
    /\ wcWeightsConform
    /\ \A t \in Idx(wc.in.weights.shape) : wc.in.weights.at[t] > 0

\* C2: N >= 2, strictly positive weights, no sigma clipping: nused counts the
\* exposures whose mask is good at the pixel, outmask is the union of the
\* per-exposure masks, and where no exposure is good the combined value and
\* the combined variance are 0.
C2_MaskUnionAndZeroGuard ==
    C2_Pre =>
        /\ wc.out.status = "ok"
        /\ \A t \in Idx(wcImgShape) :
              /\ wc.out.nused.at[t] = Cardinality(wcGoodExposures(t))
              /\ wc.out.outmask.at[t] = (wcGoodExposures(t) # {})
              /\ wcGoodExposures(t) = {} =>
                    /\ \A k \in DOMAIN wc.in.sci_list : wc.out.sci_list_out[k].at[t] = <<0, 1>>
                    /\ \A k \in DOMAIN wc.in.var_list : wc.out.var_list_out[k].at[t] = <<0, 1>>

\* one pixel without any good exposure, one pixel good in some exposures only
C2_Witness ==
    /\ C2_Pre /\ wc.out.status = "ok" /\ Len(wc.in.var_list) = 1
    /\ \E t \in Idx(wcImgShape) : wcGoodExposures(t) = {}
    /\ \E t \in Idx(wcImgShape) : wcGoodExposures(t) # {} /\ wcGoodExposures(t) # 1..wcN
    /\ \E t \in Idx(wc.in.weights.shape) : wc.in.weights.at[t] > 1

C3_Pre == wcCalled /\ wcShapesAgree /\ wcN = 1

\* C3: with one exposure weighted_combine warns and returns every science and
\* variance image unchanged without the exposure axis, outmask equal to the
\* input mask and nused equal to the mask as 0/1, whatever the weights and
\* the sigma-clipping arguments.
C3_SingleImagePassThrough ==
    C3_Pre =>
        /\ wc.out.status = "ok"
        /\ "Cannot combine a single image. Returning input images" \in wc.out.warn
        /\ \A k \in DOMAIN wc.in.sci_list :
              /\ wc.out.sci_list_out[k].shape = wcImgShape
              /\ \A t \in Idx(wcImgShape) :
                    wc.out.sci_list_out[k].at[t] = wc.in.sci_list[k].at[<<1>> \o t]
        /\ DOMAIN wc.out.var_list_out = DOMAIN wc.in.var_list
        /\ \A k \in DOMAIN wc.in.var_list :
              /\ wc.out.var_list_out[k].shape = wcImgShape
              /\ \A t \in Idx(wcImgShape) :
                    wc.out.var_list_out[k].at[t] = wc.in.var_list[k].at[<<1>> \o t]
        /\ wc.out.outmask.shape = wcImgShape /\ wc.out.nused.shape = wcImgShape
        /\ \A t \in Idx(wcImgShape) :
              /\ wc.out.outmask.at[t] = wc.in.inmask_stack.at[<<1>> \o t]
              /\ wc.out.nused.at[t] = (IF wc.in.inmask_stack.at[<<1>> \o t] THEN 1 ELSE 0)

\* one exposure, weights that broadcast_weights would not fit to the stack,
\* sigma clipping requested, a mask with a good and a bad pixel
C3_Witness ==
    /\ C3_Pre /\ wc.out.status = "ok" /\ wc.in.sigma_clip /\ ~wcWeightsConform
    /\ \E t, u \in Idx(wcShape) : wc.in.inmask_stack.at[t] /\ ~wc.in.inmask_stack.at[u]

---------------------------------------------------------------------------
(* broadcast_weights on arbitrary shapes (SpecBroadcast)                   *)

Dims == 1..MaxDim

\* shapes of rank 0 to 3, and one shape of rank 4
Shapes ==
    {<<>>} \cup {<<a>> : a \in Dims} \cup {<<a, b>> : a, b \in Dims}
        \cup {<<a, b, c>> : a, b, c \in Dims} \cup {<<1, 1, 1, 1>>}

WeightArray(shape) == MkArr(shape, [t \in Idx(shape) |-> t[1] + Len(t)])

BroadcastWeights ==
    \E wshape \in Shapes, shape \in Shapes \ {<<>>} :
      /\ bw = Idle
      /\ bw' = [op |-> "broadcast_weights",
                in |-> [weights |-> WeightArray(wshape), shape |-> shape],
                out |-> broadcast_weights(WeightArray(wshape), shape)]
      /\ UNCHANGED <<wc, ec, rb, wi, co, fits, sv, vars2, vars3>>

SpecBroadcast == Init /\ [][BroadcastWeights]_vars

bwCalled == bw.op = "broadcast_weights"

\* C4: whenever broadcast_weights accepts a weight array of rank 1, 2 or 3
\* the returned stack has the target shape, and rank-2 weights whose shape
\* differs from a rank-2 target shape are a fatal error.
C4_OutputShapeIsTarget ==
    bwCalled =>
        /\ (ndim(bw.in.weights) \in {1, 2, 3} /\ bw.out.status = "ok")
              => bw.out.weights_stack.shape = bw.in.shape
        /\ (ndim(bw.in.weights) = 2 /\ Len(bw.in.shape) = 2 /\ bw.in.weights.shape # bw.in.shape)
              => bw.out.status = "fatal"

\* the weight shape fits the target: equal shapes, or rank-2 weights equal to
\* the first two dimensions of a rank-3 target
bwShapeMatches ==
    \/ bw.in.weights.shape = bw.in.shape
    \/ /\ ndim(bw.in.weights) = 2 /\ Len(bw.in.shape) = 3
       /\ bw.in.weights.shape = SubSeq(bw.in.shape, 1, 2)

\* C25: broadcast_weights ends in a fatal error for every rank-2 or rank-3
\* weight array whose shape does not match the target shape and for every
\* weight array of rank other than 1, 2 or 3; it never returns a weight
\* stack whose shape differs from the target shape.
C25_MismatchFatal ==
    bwCalled =>
        /\ (ndim(bw.in.weights) \in {2, 3} /\ ~bwShapeMatches) => bw.out.status = "fatal"
        /\ ndim(bw.in.weights) \notin {1, 2, 3} => bw.out.status = "fatal"
        /\ bw.out.status = "ok" => bw.out.weights_stack.shape = bw.in.shape

---------------------------------------------------------------------------
(* rebin2d                                                                 *)

\* mutant of bin_of: every bin is half-open, the last one too
bin_of_half_open(edges, x) ==
    IF \E k \in 1..(Len(edges) - 1) : edges[k] <= x /\ x < edges[k + 1]
    THEN CHOOSE k \in 1..(Len(edges) - 1) : edges[k] <= x /\ x < edges[k + 1]
    ELSE 0

\* the bin of np.histogram2d that sample x falls in along one axis, 0 when
\* it falls in none: bins are [e_k, e_k+1) and the last one is [e_m-1, e_m]
bin_of(edges, x) ==
    IF Len(edges) >= 2 /\ x = edges[Len(edges)] /\ edges[Len(edges) - 1] <= x
    THEN Len(edges) - 1
    ELSE IF \E k \in 1..(Len(edges) - 1) : edges[k] <= x /\ x < edges[k + 1]
    THEN CHOOSE k \in 1..(Len(edges) - 1) : edges[k] <= x /\ x < edges[k + 1]
    ELSE 0

\* np.histogram2d(x[sel], y[sel], bins=[xbins, ybins], weights=w[sel]) for the
\* 2D images x, y, w of one exposure and the boolean selection sel
histogram2d(x, y, sel, xbins, ybins, w) ==
    LET oshape == <<Len(xbins) - 1, Len(ybins) - 1>>
    IN  MkArr(oshape,
              [b \in Idx(oshape) |->
                  LET hit == {t \in Idx(x.shape) :
                                 sel.at[t] /\ bin_of(xbins, x.at[t]) = b[1]
                                           /\ bin_of(ybins, y.at[t]) = b[2]}
                  IN  SumFn([t \in hit |-> w.at[t]], hit)])

\* stack[img, :, :]
image_of(stack, img) ==
    MkArr(Tail(stack.shape), [t \in Idx(Tail(stack.shape)) |-> stack.at[<<img>> \o t]])

\* (norm_img > 0.0) * weigh/(norm_img + (norm_img == 0.0))**power
rebin_norm(weigh, norm_img, power) ==
    MkArr(weigh.shape,
          [b \in Idx(weigh.shape) |->
              IF norm_img.at[b] > 0
              THEN Div(weigh.at[b], IF power = 2 THEN norm_img.at[b] * norm_img.at[b]
                                                 ELSE norm_img.at[b])
              ELSE <<0, 1>>])

\* np.stack of per-exposure images into a stack
stack_of(imgs) ==
    MkArr(<<Len(imgs)>> \o imgs[1].shape,
          [t \in Idx(<<Len(imgs)>> \o imgs[1].shape) |-> imgs[t[1]].at[Tail(t)]])

rebin2d(spec_bins, spat_bins, waveimg_stack, spatimg_stack, thismask_stack, inmask_stack, sci_list, var_list) ==
    LET chk == img_list_error_check(ShapesOf(sci_list), ShapesOf(var_list)) IN
    IF chk.status # "ok" THEN [status |-> chk.status]
    ELSE
    LET nimgs == chk.shape[1]
        ones == np_ones(Tail(chk.shape))
        wave(img) == image_of(waveimg_stack, img)
        spat(img) == image_of(spatimg_stack, img)
        thismask(img) == image_of(thismask_stack, img)
        finmask(img) ==
            MkArr(Tail(chk.shape),
                  [t \in Idx(Tail(chk.shape)) |->
                      thismask_stack.at[<<img>> \o t] /\ inmask_stack.at[<<img>> \o t]])
        nsmp(img) == histogram2d(wave(img), spat(img), thismask(img), spec_bins, spat_bins, ones)
        norm(img) == histogram2d(wave(img), spat(img), finmask(img), spec_bins, spat_bins, ones)
        rebinned(stack, img, power) ==
            rebin_norm(histogram2d(wave(img), spat(img), finmask(img), spec_bins, spat_bins,
                                   image_of(stack, img)),
                       norm(img), power)
    IN  [status |-> "ok",
         sci_list_out |-> [k \in DOMAIN sci_list |->
                              stack_of([img \in 1..nimgs |-> rebinned(sci_list[k], img, 1)])],
         var_list_out |-> [k \in DOMAIN var_list |->
                              stack_of([img \in 1..nimgs |-> rebinned(var_list[k], img, 2)])],
         norm_rebin_stack |-> stack_of([img \in 1..nimgs |-> norm(img)]),
         nsmp_rebin_stack |-> stack_of([img \in 1..nimgs |-> nsmp(img)])]

---------------------------------------------------------------------------
(* Inputs of rebin2d (SpecRebin)                                           *)

RbShape(n) == <<n, RbSpec, RbSpat>>

\* coordinate images: the 0-based pixel coordinates, the pixel coordinates
\* with the spectral coordinate tilted along the slit, and the pixel
\* coordinates moved up by one (the last row leaves the grid)
CoordKind == {"pixel", "tilted", "offset"}

WaveImg(kind, n) ==
    MkArr(RbShape(n), [t \in Idx(RbShape(n)) |->
                          CASE kind = "pixel" -> t[2] - 1
                            [] kind = "tilted" -> t[2] - 1 + (t[3] - 1)
                            [] kind = "offset" -> t[2] + 1])

SpatImg(n) == MkArr(RbShape(n), [t \in Idx(RbShape(n)) |-> t[3] - 1])

\* bin edges: the unique pixel coordinates 0..n-1, the pixel edges 0..n, or
\* one bin over everything
BinKind == {"coords", "edges", "one"}

Bins(kind, n) ==
    CASE kind = "coords" -> [k \in 1..n |-> k - 1]
      [] kind = "edges" -> [k \in 1..(n + 1) |-> k - 1]
      [] kind = "one" -> <<0, n>>

RbMask(kinds) ==
    MkArr(RbShape(Len(kinds)),
          [t \in Idx(RbShape(Len(kinds))) |->
              CASE kinds[t[1]] = "good" -> TRUE
                [] kinds[t[1]] = "bad" -> FALSE
                [] kinds[t[1]] = "checker" -> (t[2] + t[3]) % 2 = 0
                [] kinds[t[1]] = "corner" -> ~(t[2] = 1 /\ t[3] = 1)])

RbSci(n) == MkArr(RbShape(n), [t \in Idx(RbShape(n)) |-> t[1] + 3 * t[2] + 7 * t[3] * t[3]])

RbVar(n) == MkArr(RbShape(n), [t \in Idx(RbShape(n)) |-> t[2] + t[3]])

Rebin2d ==
    \E n \in 1..MaxRbImgs, ckind \in CoordKind, bkind \in BinKind :
      \E tkinds, ikinds \in [1..n -> MaskKind] :
        /\ rb = Idle
        /\ rb' = [op |-> "rebin2d",
                  in |-> [spec_bins |-> Bins(bkind, RbSpec), spat_bins |-> Bins(bkind, RbSpat),
                          waveimg_stack |-> WaveImg(ckind, n), spatimg_stack |-> SpatImg(n),
                          thismask_stack |-> RbMask(tkinds), inmask_stack |-> RbMask(ikinds),
                          sci_list |-> <<RbSci(n), WaveImg(ckind, n)>>,
                          var_list |-> <<RbVar(n)>>],
                  out |-> rebin2d(Bins(bkind, RbSpec), Bins(bkind, RbSpat),
                                  WaveImg(ckind, n), SpatImg(n), RbMask(tkinds), RbMask(ikinds),
                                  <<RbSci(n), WaveImg(ckind, n)>>, <<RbVar(n)>>)]
        /\ UNCHANGED <<wc, bw, ec, wi, co, fits, sv, vars2, vars3>>

SpecRebin == Init /\ [][Rebin2d]_vars

---------------------------------------------------------------------------
(* Claims about rebin2d (checked under SpecRebin)                          *)

rbCalled == rb.op = "rebin2d"

rbShape == rb.in.sci_list[1].shape

\* one exposure, fully on the slit and unmasked, whose coordinate images are
\* its pixel coordinates, rebinned onto bins equal to those coordinates
C5_Pre ==
    /\ rbCalled /\ rbShape[1] = 1
    /\ \A t \in Idx(rbShape) :
          /\ rb.in.thismask_stack.at[t] /\ rb.in.inmask_stack.at[t]
          /\ rb.in.waveimg_stack.at[t] = t[2] - 1
          /\ rb.in.spatimg_stack.at[t] = t[3] - 1
    /\ rb.in.spec_bins = [k \in 1..rbShape[2] |-> k - 1]
    /\ rb.in.spat_bins = [k \in 1..rbShape[3] |-> k - 1]

rbMerged(b) ==
    {t \in Idx(rbShape) :
        /\ t[2] = b[2] \/ (b[2] = rbShape[2] - 1 /\ t[2] = rbShape[2])
        /\ t[3] = b[3] \/ (b[3] = rbShape[3] - 1 /\ t[3] = rbShape[3])}

---------------------------------------------------------------------------
(* img_list_error_check on arbitrary lists (SpecErrorCheck)                *)

\* image shapes of rank 1, 2 and 3
ImgShapes == {<<2>>, <<2, 2>>, <<2, 3>>, <<2, 2, 1>>}

ShapeLists == UNION {[1..n -> ImgShapes] : n \in 0..MaxList}

ImgListErrorCheck ==
    \E shape_sci_list, shape_var_list \in ShapeLists :
      /\ ec = Idle
      /\ ec' = [op |-> "img_list_error_check",
                in |-> [sci |-> shape_sci_list, var |-> shape_var_list],
                out |-> img_list_error_check(shape_sci_list, shape_var_list)]
      /\ UNCHANGED <<wc, bw, rb, wi, co, fits, sv, vars2, vars3>>

SpecErrorCheck == Init /\ [][ImgListErrorCheck]_vars

ecCalled == ec.op = "img_list_error_check"

\* the shapes of all images of both lists
ecAllShapes ==
    {ec.in.sci[i] : i \in DOMAIN ec.in.sci} \cup {ec.in.var[j] : j \in DOMAIN ec.in.var}

\* C6 as stated (for images of two or more dimensions): a fatal error
\* whenever two images of the two lists differ in shape and the common shape
\* otherwise, for all list lengths, empty lists included.
C6_FatalIffShapesDiffer ==
    (ecCalled /\ ecAllShapes # {} /\ \A sh \in ecAllShapes : Len(sh) >= 2) =>
        IF Cardinality(ecAllShapes) > 1
        THEN ec.out.status = "fatal"
        ELSE ec.out.status = "ok" /\ ec.out.shape \in ecAllShapes

\* what the code does on every input: for a non-empty sci_list the call is
\* fatal exactly when two images differ in shape or an image has fewer than
\* two dimensions, and otherwise returns the common shape (an empty var_list
\* included); for an empty sci_list it never returns a shape: it is fatal
\* when a variance image has fewer than two dimensions and raises IndexError
\* otherwise, variance images of different shapes included.
ecOutcome ==
    ecCalled =>
        IF ec.in.sci # <<>>
        THEN IF Cardinality(ecAllShapes) > 1 \/ \E sh \in ecAllShapes : Len(sh) < 2
             THEN ec.out.status = "fatal"
             ELSE ec.out.status = "ok" /\ ecAllShapes = {ec.out.shape}
        ELSE IF \E sh \in ecAllShapes : Len(sh) < 2
             THEN ec.out.status = "fatal"
             ELSE ec.out.status = "IndexError"

---------------------------------------------------------------------------
(* get_wave_ind; wavelengths are integers in tenths of a grid unit         *)

Abs(x) == IF x < 0 THEN -x ELSE x

\* diff[diff > 0] = np.inf
mask_positive(diff) ==
    [i \in DOMAIN diff |-> IF diff[i] > 0 THEN [inf |-> TRUE, v |-> 0]
                                          ELSE [inf |-> FALSE, v |-> diff[i]]]

\* |a| < |b| for entries that may be np.inf
AbsLess(a, b) == ~a.inf /\ (b.inf \/ Abs(a.v) < Abs(b.v))

\* np.any(diff < 0)
any_negative(d) == \E i \in DOMAIN d : ~d[i].inf /\ d[i].v < 0

\* mutant of np_argmin_abs: the position is counted from 1
np_argmin_abs_one_based(d) ==
    CHOOSE i \in DOMAIN d :
        /\ \A j \in DOMAIN d : ~AbsLess(d[j], d[i])
        /\ \A j \in DOMAIN d : j < i => AbsLess(d[i], d[j])

\* np.argmin(np.abs(diff)): the 0-based position of the first smallest entry
np_argmin_abs(d) ==
    (CHOOSE i \in DOMAIN d :
        /\ \A j \in DOMAIN d : ~AbsLess(d[j], d[i])
        /\ \A j \in DOMAIN d : j < i => AbsLess(d[i], d[j])) - 1

get_wave_ind(wave_grid, wave_min, wave_max) ==
    LET dlo == mask_positive([i \in DOMAIN wave_grid |-> wave_grid[i] - wave_min])
        dhi == mask_positive([i \in DOMAIN wave_grid |-> wave_max - wave_grid[i]])
    IN  [ind_lower |-> IF ~any_negative(dlo) THEN 0 ELSE np_argmin_abs(dlo),
         ind_upper |-> IF ~any_negative(dhi) THEN Len(wave_grid) - 1 ELSE np_argmin_abs(dhi),
         warn |-> (IF ~any_negative(dlo)
                   THEN {"Your wave grid does not extend blue enough. Taking bluest point"}
                   ELSE {})
                  \cup
                  (IF ~any_negative(dhi)
                   THEN {"Your wave grid does not extend red enough. Taking reddest point"}
                   ELSE {})]

\* the grid 1, 2, ..., n in tenths
UnitGrid(n) == [i \in 1..n |-> 10 * i]

Grid100 == UnitGrid(100)

\* short grids and the grid 1..100
Grids == {UnitGrid(n) : n \in 1..MaxSmallGrid} \cup {Grid100}

\* data extrema below, on, between and above the grid points
WaveVals(grid) ==
    {0, 4, 10, 16, 20, 25, 30, 104, 506,
     grid[Len(grid)] - 4, grid[Len(grid)], grid[Len(grid)] + 6}

GetWaveInd ==
    \E wave_grid \in Grids :
      \E wave_min, wave_max \in WaveVals(wave_grid) :
        /\ wi = Idle
        /\ wave_min <= wave_max
        /\ wi' = [op |-> "get_wave_ind",
                  in |-> [wave_grid |-> wave_grid, wave_min |-> wave_min, wave_max |-> wave_max],
                  out |-> get_wave_ind(wave_grid, wave_min, wave_max)]
        /\ UNCHANGED <<wc, bw, ec, rb, co, fits, sv, vars2, vars3>>

SpecWaveInd == Init /\ [][GetWaveInd]_vars

wiCalled == wi.op = "get_wave_ind"

wiBlue == "Your wave grid does not extend blue enough. Taking bluest point"
wiRed == "Your wave grid does not extend red enough. Taking reddest point"

\* C7 as stated: on the grid 1..100 with wave_min 10.4 and wave_max 50.6 the
\* result is (10, 51); wave_min below the grid gives ind_lower 0 with a
\* warning, wave_max above the grid gives the last index with a warning, and
\* a data range inside the grid gives no warning.
C7_WaveIndAsStated ==
    wiCalled =>
        /\ (wi.in.wave_grid = Grid100 /\ wi.in.wave_min = 104 /\ wi.in.wave_max = 506)
              => (wi.out.ind_lower = 10 /\ wi.out.ind_upper = 51)
        /\ wi.in.wave_min < wi.in.wave_grid[1]
              => (wi.out.ind_lower = 0 /\ wiBlue \in wi.out.warn)
        /\ wi.in.wave_max > wi.in.wave_grid[Len(wi.in.wave_grid)]
              => (wi.out.ind_upper = Len(wi.in.wave_grid) - 1 /\ wiRed \in wi.out.warn)
        /\ (wi.in.wave_grid[1] <= wi.in.wave_min
               /\ wi.in.wave_max <= wi.in.wave_grid[Len(wi.in.wave_grid)])
              => wi.out.warn = {}

\* C7 amended: the result on the grid 1..100 is (9, 50), the 0-based
\* positions of the grid values 10 and 51; the two fall-backs are as stated;
\* no warning is issued when the data range lies strictly inside the grid,
\* while wave_min equal to the smallest grid value or wave_max equal to the
\* largest one is warned about as well (with the same index).
C7_WaveIndZeroBased ==
    wiCalled =>
        /\ (wi.in.wave_grid = Grid100 /\ wi.in.wave_min = 104 /\ wi.in.wave_max = 506)
              => (wi.out.ind_lower = 9 /\ wi.out.ind_upper = 50)
        /\ wi.in.wave_min <= wi.in.wave_grid[1]
              => (wi.out.ind_lower = 0 /\ wiBlue \in wi.out.warn)
        /\ wi.in.wave_max >= wi.in.wave_grid[Len(wi.in.wave_grid)]
              => (wi.out.ind_upper = Len(wi.in.wave_grid) - 1 /\ wiRed \in wi.out.warn)
        /\ (wi.in.wave_grid[1] < wi.in.wave_min
               /\ wi.in.wave_max < wi.in.wave_grid[Len(wi.in.wave_grid)])
              => /\ wi.out.warn = {}
                 /\ wi.in.wave_grid[wi.out.ind_lower + 1] <= wi.in.wave_min
                 /\ wi.in.wave_min < wi.in.wave_grid[wi.out.ind_lower + 2]
                 /\ wi.in.wave_grid[wi.out.ind_upper + 1] >= wi.in.wave_max
                 /\ wi.in.wave_grid[wi.out.ind_upper] < wi.in.wave_max

\* the call of the claim: grid 1..100, wave_min 10.4, wave_max 50.6
C7_Witness ==
    /\ wiCalled /\ wi.in.wave_grid = Grid100 /\ wi.in.wave_min = 104 /\ wi.in.wave_max = 506
    /\ wi.out.warn = {}

---------------------------------------------------------------------------
(* MultiSlitCoadd2d.compute_offsets: the offsets from the rectified traces  *)
(* that objfind returns; trace positions are whole pixels, medians and      *)
(* offsets are kept in half pixels                                          *)

\* column iexp of traces_rect, a sequence over the rows
column(traces_rect, iexp) == traces_rect[iexp]

\* np.median over one column, in half pixels: the middle value of the sorted
\* column, or the mean of the two middle values
np_median(col) ==
    LET srt == SortSeq(col, LAMBDA a, b : a < b)
        n == Len(col)
    IN  IF n % 2 = 1 THEN 2 * srt[(n + 1) \div 2]
                     ELSE srt[n \div 2] + srt[n \div 2 + 1]

\* mutant of compute_offsets: the difference is taken the other way round
compute_offsets_sign_flipped(traces_rect) ==
    LET med_traces_rect == [iexp \in DOMAIN traces_rect |-> np_median(column(traces_rect, iexp))]
    IN  [iexp \in DOMAIN traces_rect |-> med_traces_rect[iexp] - med_traces_rect[1]]

\* med_traces_rect = np.median(traces_rect, axis=0)
\* offsets = med_traces_rect[0] - med_traces_rect
compute_offsets(traces_rect) ==
    LET med_traces_rect == [iexp \in DOMAIN traces_rect |-> np_median(column(traces_rect, iexp))]
    IN  [iexp \in DOMAIN traces_rect |-> med_traces_rect[1] - med_traces_rect[iexp]]

TraceKind == {"flat", "ramp", "step", "zigzag"}

\* the trace objfind reports for one exposure: a profile along the spectral
\* direction displaced by a whole number of pixels
Trace(kind, shift, nrows) ==
    [r \in 1..nrows |->
        shift + (CASE kind = "flat" -> 3
                   [] kind = "ramp" -> r
                   [] kind = "step" -> IF r = 1 THEN 1 ELSE 4
                   [] OTHER -> IF r % 2 = 1 THEN 5 ELSE 2)]

Traces(nrows) == {Trace(kind, shift, nrows) : kind \in TraceKind, shift \in 0..MaxShift}

ComputeOffsets ==
    \E nexp \in 1..MaxExp, nrows \in 1..MaxRows :
      \E traces_rect \in [1..nexp -> Traces(nrows)] :
        /\ co = Idle
        /\ co' = [op |-> "compute_offsets",
                  in |-> [traces_rect |-> traces_rect, nexp |-> nexp, nspec |-> nrows],
                  out |-> [offsets |-> compute_offsets(traces_rect)]]
        /\ UNCHANGED <<wc, bw, ec, rb, wi, fits, sv, vars2, vars3>>

SpecOffsets == Init /\ [][ComputeOffsets]_vars

coCalled == co.op = "compute_offsets"

\* m (in half pixels) splits the column in two halves: at most half of the
\* values lie below it and at most half above it
IsMedian(col, m) ==
    /\ 2 * Cardinality({r \in DOMAIN col : 2 * col[r] < m}) <= Len(col)
    /\ 2 * Cardinality({r \in DOMAIN col : 2 * col[r] > m}) <= Len(col)
    /\ \E r1, r2 \in DOMAIN col : m = col[r1] + col[r2]

\* exposure i's trace sits D pixels further along the spatial axis than
\* exposure 0's at every row
coShiftedBy(i, D) ==
    \A r \in 1..co.in.nspec : co.in.traces_rect[i][r] = co.in.traces_rect[1][r] + D

\* C8: offset_i is the median rectified trace position of exposure 0 minus
\* that of exposure i; offset_0 = 0; a trace a constant D further along the
\* spatial axis gives offset_1 = -D.
C8_OffsetsAreMedianDifferences ==
    coCalled =>
        /\ \A i \in 1..co.in.nexp :
              \E m0, mi \in 0..(2 * (5 + MaxShift)) :
                 /\ IsMedian(co.in.traces_rect[1], m0)
                 /\ IsMedian(co.in.traces_rect[i], mi)
                 /\ m0 = np_median(co.in.traces_rect[1])
                 /\ mi = np_median(co.in.traces_rect[i])
                 /\ co.out.offsets[i] = m0 - mi
        /\ co.out.offsets[1] = 0
        /\ co.in.nexp >= 2 =>
              \A D \in (0 - MaxShift)..MaxShift :
                 coShiftedBy(2, D) => co.out.offsets[2] = 0 - 2 * D

\* two exposures of a sloping trace, the second displaced by two pixels
C8_Witness ==
    /\ coCalled /\ co.in.nexp >= 2 /\ co.in.nspec >= 2
    /\ coShiftedBy(2, 2)
    /\ co.in.traces_rect[1][1] # co.in.traces_rect[1][2]
    /\ co.out.offsets[2] = 0 - 4

---------------------------------------------------------------------------
(* save_2d_images and init_hdus on one output file.  fits is the file on    *)
(* disk (Idle while it does not exist): its HDU list, primary HDU first,    *)
(* and the EXT#### keywords of its primary header.  A name is the detector  *)
(* token and the tag that follows the dash; 'DET' + sdet in hdu_name holds  *)
(* when the token of the name is sdet.                                      *)

\* the detectors of the instrument, in the order they are reduced
DetOrder == <<1, 2>>

Detectors == {DetOrder[i] : i \in DOMAIN DetOrder}

\* the keys of sci_output[det], in the order save_2d_images writes them
Fields == <<"sciimg", "sciivar", "skymodel", "objmodel", "ivarmodel", "outmask">>

\* the name tags, in the same order
Tags == <<"Processed", "IVARRAW", "SKY", "OBJ", "IVARMODEL", "MASK">>

\* parse.get_dnum: the detector number as two zero-padded digits
get_dnum(det) == <<det \div 10, det % 10>>

PrimaryHDU == [name |-> [sdet |-> <<>>, tag |-> "PRIMARY"], data |-> <<>>]

\* mutant of det_hdus: the SKY extension is given the object model and the
\* OBJ extension the sky model
det_hdus_sky_obj_swapped(sdet, value) ==
    [k \in 1..6 |-> [name |-> [sdet |-> sdet, tag |-> Tags[k]],
                     data |-> value[Fields[IF k = 3 THEN 4 ELSE IF k = 4 THEN 3 ELSE k]]]]

\* the six ImageHDUs of one detector
det_hdus(sdet, value) ==
    [k \in 1..6 |-> [name |-> [sdet |-> sdet, tag |-> Tags[k]], data |-> value[Fields[k]]]]

\* the loop over sci_output.keys(), from the k-th key on
RECURSIVE fill_images(_, _, _, _)
fill_images(sci_output, k, hdus, header) ==
    IF k > Len(sci_output) THEN [hdus |-> hdus, header |-> header]
    ELSE IF sci_output[k].meta \/ "sciimg" \notin DOMAIN sci_output[k].value
         THEN fill_images(sci_output, k + 1, hdus, header)
         ELSE LET ext == Len(hdus) - 1
                  new == det_hdus(get_dnum(sci_output[k].det), sci_output[k].value)
              IN  fill_images(sci_output, k + 1, hdus \o new,
                      [j \in DOMAIN header \cup ((ext + 1)..(ext + 6)) |->
                          IF j \in (ext + 1)..(ext + 6) THEN new[j - ext].name ELSE header[j]])

\* the 0-based positions of the HDUs of the detectors being updated
popme(update_det, hdus) ==
    {ss \in 0..(Len(hdus) - 1) :
        \E i \in DOMAIN update_det : hdus[ss + 1].name.sdet = get_dnum(update_det[i])}

\* hdus without the positions of popme
pop_all(hdus, pop) ==
    LET keep(i) == \A ss \in pop : ss + 1 # i
        RECURSIVE build(_)
        build(i) == IF i > Len(hdus) THEN <<>>
                    ELSE (IF keep(i) THEN <<hdus[i]>> ELSE <<>>) \o build(i + 1)
    IN  build(1)

\* Header.remove raises KeyError for a keyword the header does not hold
init_hdus(update_det, file) ==
    LET pop == popme(update_det, file.hdus)
    IN  IF \E ss \in pop : ss \notin DOMAIN file.header
        THEN [status |-> "KeyError", hdus |-> file.hdus, header |-> file.header]
        ELSE [status |-> "ok", hdus |-> pop_all(file.hdus, pop),
              header |-> [j \in DOMAIN file.header \ pop |-> file.header[j]]]

\* the empty EXT#### part of a fresh primary header
NoExt == [j \in {} |-> PrimaryHDU.name]

\* the result of save_2d_images: status, and the file as it is on disk after
save_2d_images(sci_output, update_det, file) ==
    LET start == IF file # Idle /\ ~update_det.is_none
                 THEN init_hdus(update_det.dets, file)
                 ELSE [status |-> "ok", hdus |-> <<PrimaryHDU>>, header |-> NoExt]
        filled == fill_images(sci_output, 1, start.hdus, start.header)
    IN  IF start.status # "ok"
        THEN [status |-> start.status, file |-> file]
        ELSE [status |-> "ok",
              file |-> [op |-> "file", hdus |-> filled.hdus, header |-> filled.header]]

\* the images of one detector as supplied by the ver-th call
Images(det, ver) == [f \in {Fields[k] : k \in 1..6} |-> <<det, f, ver>>]

MetaEntry == [meta |-> TRUE, det |-> 0, value |-> <<>>]

\* the detector entries of sci_output from the k-th detector on; a detector
\* is absent, present without 'sciimg', or present with its six images
RECURSIVE det_entries(_, _, _)
det_entries(c, ver, k) ==
    IF k > Len(DetOrder) THEN <<>>
    ELSE (CASE c[DetOrder[k]] = "absent" -> <<>>
            [] c[DetOrder[k]] = "nosci" -> <<[meta |-> FALSE, det |-> DetOrder[k], value |-> <<>>]>>
            [] OTHER -> <<[meta |-> FALSE, det |-> DetOrder[k], value |-> Images(DetOrder[k], ver)]>>)
         \o det_entries(c, ver, k + 1)

\* sci_output: the 'meta' key followed by the detectors
SciOutputs(ver) ==
    {<<MetaEntry>> \o det_entries(c, ver, 1) : c \in [Detectors -> {"absent", "nosci", "sci"}]}

\* update_det: None, one detector, or the list of all detectors
UpdateDets ==
    {[is_none |-> TRUE, dets |-> <<>>]}
        \cup {[is_none |-> FALSE, dets |-> <<d>>] : d \in Detectors}
        \cup {[is_none |-> FALSE, dets |-> DetOrder]}

\* the number of save_2d_images calls made so far
svCalls == IF sv = Idle THEN 0 ELSE sv.n

Save2dImages ==
    \E sci_output \in SciOutputs(svCalls + 1), update_det \in UpdateDets :
        /\ svCalls < MaxCalls
        /\ sv' = [op |-> "save_2d_images", n |-> svCalls + 1,
                  in |-> [sci_output |-> sci_output, update_det |-> update_det],
                  before |-> fits,
                  out |-> [status |-> save_2d_images(sci_output, update_det, fits).status]]
        /\ fits' = save_2d_images(sci_output, update_det, fits).file
        /\ UNCHANGED <<wc, bw, ec, rb, wi, co, vars2, vars3>>

SpecSave == Init /\ [][Save2dImages]_vars

svCalled == sv.op = "save_2d_images"

\* the last call wrote a fresh file
svFresh == svCalled /\ (sv.before = Idle \/ sv.in.update_det.is_none)

\* the last call was an update of an existing file
svUpdate == svCalled /\ sv.before # Idle /\ ~sv.in.update_det.is_none

\* the detector entries of sci_output that carry 'sciimg', in order
svWithSci == SelectSeq(sv.in.sci_output, LAMBDA e : ~e.meta /\ "sciimg" \in DOMAIN e.value)

\* the layout C9 states: extension tag and the image it holds
C9_Layout ==
    <<<<"Processed", "sciimg">>, <<"IVARRAW", "sciivar">>, <<"SKY", "skymodel">>,
      <<"OBJ", "objmodel">>, <<"IVARMODEL", "ivarmodel">>, <<"MASK", "outmask">>>>

\* C9: a fresh write produces, for every detector key carrying 'sciimg',
\* exactly six image extensions DETnn-Processed, -IVARRAW, -SKY, -OBJ,
\* -IVARMODEL, -MASK in this order holding sciimg, sciivar, skymodel,
\* objmodel, ivarmodel and outmask unchanged, and no extension for 'meta' or
\* for a detector without 'sciimg'.
C9_FreshWriteSixExtensions ==
    svFresh =>
        /\ sv.out.status = "ok"
        /\ fits.hdus[1] = PrimaryHDU
        /\ Len(fits.hdus) = 1 + 6 * Len(svWithSci)
        /\ \A i \in DOMAIN svWithSci : \A k \in 1..6 :
              /\ fits.hdus[1 + 6 * (i - 1) + k].name =
                    [sdet |-> <<svWithSci[i].det \div 10, svWithSci[i].det % 10>>,
                     tag |-> C9_Layout[k][1]]
              /\ fits.hdus[1 + 6 * (i - 1) + k].data = svWithSci[i].value[C9_Layout[k][2]]

\* a fresh write of 'meta', one detector without 'sciimg' and one with it
C9_Witness ==
    /\ svFresh /\ Len(sv.in.sci_output) = 3 /\ Len(svWithSci) = 1
    /\ Len(fits.hdus) = 7

\* the (0-based) positions of the extensions of detector det in a file
svExtsOf(file, det) ==
    {ss \in 1..(Len(file.hdus) - 1) : file.hdus[ss + 1].name.sdet = <<det \div 10, det % 10>>}

\* the image data of detector det in a file, by tag
svDataOf(file, det) ==
    {<<file.hdus[ss + 1].name.tag, file.hdus[ss + 1].data>> : ss \in svExtsOf(file, det)}

\* the detectors named by update_det
svU == {sv.in.update_det.dets[i] : i \in DOMAIN sv.in.update_det.dets}

\* sci_output supplies the detectors of update_det, each with its images,
\* and no other detector
svSuppliesU ==
    /\ {svWithSci[i].det : i \in DOMAIN svWithSci} = svU
    /\ Len(sv.in.sci_output) = 1 + Len(svWithSci)

\* the existing file holds six extensions, all of different names, for each
\* of its detectors
svBeforeSixEach ==
    /\ \A det \in Detectors : Cardinality(svExtsOf(sv.before, det)) \in {0, 6}
    /\ \A s1, s2 \in 1..Len(sv.before.hdus) :
          sv.before.hdus[s1].name = sv.before.hdus[s2].name => s1 = s2

\* C10: after an update of an existing file with update_det = U every
\* detector not in U still has its six extensions with unchanged data, every
\* detector in U has exactly six extensions holding the newly supplied
\* images, and no extension name occurs twice.
C10_UpdateKeepsOthersReplacesU ==
    (svUpdate /\ svBeforeSixEach /\ svSuppliesU) =>
        /\ sv.out.status = "ok"
        /\ \A det \in Detectors \ svU :
              /\ Cardinality(svExtsOf(fits, det)) = Cardinality(svExtsOf(sv.before, det))
              /\ svDataOf(fits, det) = svDataOf(sv.before, det)
        /\ \A det \in svU :
              /\ Cardinality(svExtsOf(fits, det)) = 6
              /\ svDataOf(fits, det) =
                    {<<C9_Layout[k][1], <<det, C9_Layout[k][2], sv.n>>>> : k \in 1..6}
        /\ \A s1, s2 \in 1..Len(fits.hdus) :
              fits.hdus[s1].name = fits.hdus[s2].name => s1 = s2

\* the EXT#### keywords of a file's primary header index its image
\* extensions: one keyword per extension, EXT{k} holding the k-th name
svIndexed(file) ==
    /\ DOMAIN file.header = 1..(Len(file.hdus) - 1)
    /\ \A k \in 1..(Len(file.hdus) - 1) : file.header[k] = file.hdus[k + 1].name

\* C11: after a fresh write, and after an update_det refresh (sci_output
\* supplying the refreshed detectors) of a file whose header indexes its
\* extensions, the primary header holds exactly one EXT#### keyword per image
\* extension and EXT{k} records the name of the k-th extension.
C11_HeaderIndexesExtensions ==
    (svCalled /\ (svFresh \/ (svUpdate /\ svSuppliesU /\ svBeforeSixEach /\ svIndexed(sv.before))))
        => svIndexed(fits)

---------------------------------------------------------------------------
(* save_obj_info.  Counts, inverse variances (perfect squares), fit widths  *)
(* and plate scales are whole numbers; medians, and what is derived from    *)
(* them, are kept in halves.                                                *)

\* a None entry of all_specobjs.specobjs
NoneObj == [none |-> TRUE]

\* parse.parse_binning: (binspectral, binspatial), (1, 1) for 'None'
parse_binning(binning) ==
    IF binning.given THEN <<binning.binspectral, binning.binspatial>> ELSE <<1, 1>>

\* np.sqrt of a perfect square
np_sqrt(x) == CHOOSE r \in 0..x : r * r = x

\* np.median(counts*np.sqrt(ivar)), in halves
median_s2n(counts, ivar) == np_median([i \in DOMAIN counts |-> counts[i] * np_sqrt(ivar[i])])

\* mutant of obj_row: the S/N of the boxcar extraction is recorded for every
\* object
obj_row_boxcar_s2n(specobj, spectrograph, binspatial) ==
    [name |-> specobj.name,
     spat_pixpos |-> specobj.SPAT_PIXPOS,
     slit |-> specobj.slit_orderindx,
     spat_fracpos |-> IF spectrograph.pypeline = "MultiSlit" THEN <<specobj.SPAT_FRACPOS>>
                      ELSE IF spectrograph.pypeline = "Echelle" THEN <<specobj.ECH_FRACPOS>>
                      ELSE <<>>,
     boxsize |-> IF "BOX_RADIUS" \in DOMAIN specobj
                 THEN (2 * specobj.BOX_RADIUS) * binspatial
                          * spectrograph.detector[specobj.DET].platescale
                 ELSE 0,
     opt_fwhm |-> IF "FWHMFIT" \in DOMAIN specobj
                  THEN np_median(specobj.FWHMFIT) * binspatial
                           * spectrograph.detector[specobj.DET].platescale
                  ELSE 0,
     s2n |-> median_s2n(specobj.BOX_COUNTS, specobj.BOX_COUNTS_IVAR)]

\* what one pass of the loop appends to the seven lists for one object;
\* spat_fracpos gets an entry for the two pipeline families only
obj_row(specobj, spectrograph, binspatial) ==
    [name |-> specobj.name,
     spat_pixpos |-> specobj.SPAT_PIXPOS,
     slit |-> specobj.slit_orderindx,
     spat_fracpos |-> IF spectrograph.pypeline = "MultiSlit" THEN <<specobj.SPAT_FRACPOS>>
                      ELSE IF spectrograph.pypeline = "Echelle" THEN <<specobj.ECH_FRACPOS>>
                      ELSE <<>>,
     boxsize |-> IF "BOX_RADIUS" \in DOMAIN specobj
                 THEN (2 * specobj.BOX_RADIUS) * binspatial
                          * spectrograph.detector[specobj.DET].platescale
                 ELSE 0,
     opt_fwhm |-> IF "FWHMFIT" \in DOMAIN specobj
                  THEN np_median(specobj.FWHMFIT) * binspatial
                           * spectrograph.detector[specobj.DET].platescale
                  ELSE 0,
     s2n |-> IF "FWHMFIT" \in DOMAIN specobj
             THEN median_s2n(specobj.OPT_COUNTS, specobj.OPT_COUNTS_IVAR)
             ELSE median_s2n(specobj.BOX_COUNTS, specobj.BOX_COUNTS_IVAR)]

\* the rows of the objects from the k-th on, None entries skipped
RECURSIVE obj_rows(_, _, _, _)
obj_rows(specobjs, k, spectrograph, binspatial) ==
    IF k > Len(specobjs) THEN <<>>
    ELSE (IF specobjs[k] = NoneObj THEN <<>>
          ELSE <<obj_row(specobjs[k], spectrograph, binspatial)>>)
         \o obj_rows(specobjs, k + 1, spectrograph, binspatial)

\* the concatenation of the spat_fracpos entries of the rows from the k-th on
RECURSIVE fracpos_list(_, _)
fracpos_list(rows, k) ==
    IF k > Len(rows) THEN <<>> ELSE rows[k].spat_fracpos \o fracpos_list(rows, k + 1)

\* the seven lists, and the table written when there is at least one name
save_obj_info(all_specobjs, spectrograph, binning) ==
    LET binspatial == parse_binning(binning)[2]
        rows == obj_rows(all_specobjs, 1, spectrograph, binspatial)
        lists == [slits |-> [i \in DOMAIN rows |-> rows[i].slit],
                  names |-> [i \in DOMAIN rows |-> rows[i].name],
                  spat_pixpos |-> [i \in DOMAIN rows |-> rows[i].spat_pixpos],
                  spat_fracpos |-> fracpos_list(rows, 1),
                  boxsize |-> [i \in DOMAIN rows |-> rows[i].boxsize],
                  opt_fwhm |-> [i \in DOMAIN rows |-> rows[i].opt_fwhm],
                  s2n |-> [i \in DOMAIN rows |-> rows[i].s2n]]
    IN  [status |-> "ok", lists |-> lists, written |-> Len(lists.names) > 0,
         slit_column |-> IF spectrograph.pypeline = "MultiSlit" THEN "slit" ELSE "orderindx"]

\* extracted objects: boxcar only (with or without a box radius) or with an
\* optimal extraction as well
ObjKind == {"box", "box_noradius", "opt"}

Obj(kind, det) ==
    LET base == [none |-> FALSE, name |-> <<kind, det>>, DET |-> det,
                 SPAT_PIXPOS |-> 10 * det, slit_orderindx |-> det - 1,
                 SPAT_FRACPOS |-> 3, ECH_FRACPOS |-> 7,
                 BOX_COUNTS |-> <<4, 2 + det, 6>>, BOX_COUNTS_IVAR |-> <<1, 4, 1>>]
        radius == [BOX_RADIUS |-> 3]
        optimal == [FWHMFIT |-> <<2, 4 + det, 3>>,
                    OPT_COUNTS |-> <<3, 5, 1>>, OPT_COUNTS_IVAR |-> <<4, 1, 9>>]
    IN  CASE kind = "box" -> base @@ radius
          [] kind = "box_noradius" -> base
          [] OTHER -> base @@ radius @@ optimal

Objects == {NoneObj} \cup {Obj(kind, det) : kind \in ObjKind, det \in Detectors}

\* the spectrograph: its pipeline family and the plate scale of each detector
Spectrographs ==
    {[pypeline |-> pl, detector |-> <<[platescale |-> 3], [platescale |-> 5]>>] :
        pl \in {"MultiSlit", "Echelle"}}

Binnings ==
    {[given |-> FALSE], [given |-> TRUE, binspectral |-> 1, binspatial |-> 2],
     [given |-> TRUE, binspectral |-> 2, binspatial |-> 1]}

SaveObjInfo ==
    \E n \in 0..MaxObjs, spectrograph \in Spectrographs, binning \in Binnings :
      \E all_specobjs \in [1..n -> Objects] :
        /\ oi = Idle
        /\ oi' = [op |-> "save_obj_info",
                  in |-> [all_specobjs |-> all_specobjs, spectrograph |-> spectrograph,
                          binning |-> binning],
                  out |-> save_obj_info(all_specobjs, spectrograph, binning)]
        /\ UNCHANGED <<vars1, vars3, sa, ft, bp, ql, rt, cd, pw>>

SpecObjInfo == Init /\ [][SaveObjInfo]_vars

oiCalled == oi.op = "save_obj_info"

\* the non-None objects, in order
oiObjs == SelectSeq(oi.in.all_specobjs, LAMBDA o : ~o.none)

\* spatial binning times the plate scale of the object's detector
oiScale(o) ==
    (IF oi.in.binning.given THEN oi.in.binning.binspatial ELSE 1)
        * oi.in.spectrograph.detector[o.DET].platescale

\* m (in halves) is a median of the products counts*sqrt(ivar)
oiMedianOfProducts(counts, ivar, m) ==
    \E root \in [DOMAIN ivar -> 0..9] :
        /\ \A i \in DOMAIN ivar : root[i] * root[i] = ivar[i]
        /\ IsMedian([i \in DOMAIN counts |-> counts[i] * root[i]], m)

\* C13: an object without FWHMFIT gets opt_fwhm 0.0 and the boxcar S/N, an
\* object with it gets median(FWHMFIT) * spatial binning * platescale and the
\* optimal S/N; every list has one entry per non-None object; no file is
\* written when there are zero objects.
C13_ObjInfoRows ==
    oiCalled =>
        /\ \A l \in DOMAIN oi.out.lists : Len(oi.out.lists[l]) = Len(oiObjs)
        /\ oi.out.written = (Len(oiObjs) > 0)
        /\ \A i \in DOMAIN oiObjs :
              IF "FWHMFIT" \in DOMAIN oiObjs[i]
              THEN /\ \E m \in 0..20 :
                         /\ IsMedian(oiObjs[i].FWHMFIT, m)
                         /\ oi.out.lists.opt_fwhm[i] = m * oiScale(oiObjs[i])
                   /\ oiMedianOfProducts(oiObjs[i].OPT_COUNTS, oiObjs[i].OPT_COUNTS_IVAR,
                                         oi.out.lists.s2n[i])
              ELSE /\ oi.out.lists.opt_fwhm[i] = 0
                   /\ oiMedianOfProducts(oiObjs[i].BOX_COUNTS, oiObjs[i].BOX_COUNTS_IVAR,
                                         oi.out.lists.s2n[i])

\* a table of one boxcar-only object and one with an optimal extraction,
\* binned spatially, a None entry skipped
C13_Witness ==
    /\ oiCalled /\ oi.out.written /\ Len(oiObjs) = 2
    /\ oi.in.binning.given /\ oi.in.binning.binspatial = 2
    /\ "FWHMFIT" \notin DOMAIN oiObjs[1] /\ "FWHMFIT" \in DOMAIN oiObjs[2]
    /\ oi.out.lists.opt_fwhm[1] = 0 /\ oi.out.lists.opt_fwhm[2] > 0
    /\ oi.out.lists.s2n[1] # oi.out.lists.s2n[2]

---------------------------------------------------------------------------
(* save_all: the 1D outputs, then save_2d_images on the spec2d file (fits)  *)

\* the 'specobjs' lists of the keys of sci_dict from the k-th on; a key
\* without 'specobjs' raises KeyError and is skipped
RECURSIVE collect_specobjs(_, _)
collect_specobjs(sci_dict, k) ==
    IF k > Len(sci_dict) THEN <<>>
    ELSE (IF "specobjs" \in DOMAIN sci_dict[k].value THEN sci_dict[k].value.specobjs ELSE <<>>)
         \o collect_specobjs(sci_dict, k + 1)

\* the files written, in order, the warnings, and the spec2d file afterwards
save_all(sci_dict, spectrograph, update_det, binning, file) ==
    LET all_specobjs == collect_specobjs(sci_dict, 1)
        info == save_obj_info(all_specobjs, spectrograph, binning)
        one_d == IF Len(all_specobjs) = 0 THEN <<>>
                 ELSE <<"spec1d.fits">> \o (IF info.written THEN <<"spec1d.txt">> ELSE <<>>)
        two_d == save_2d_images(sci_dict, update_det, file)
    IN  [status |-> two_d.status,
         warn |-> IF Len(all_specobjs) = 0
                  THEN {"No objects to save. Only writing spec2d files!"} ELSE {},
         written |-> one_d \o (IF two_d.status = "ok" THEN <<"spec2d.fits">> ELSE <<>>),
         file |-> two_d.file]

\* the entries of sci_dict from the k-th detector on: a detector is absent,
\* or holds its images with no 'specobjs' key, with an empty list of objects,
\* or with one extracted object
RECURSIVE dict_entries(_, _, _)
dict_entries(c, ver, k) ==
    IF k > Len(DetOrder) THEN <<>>
    ELSE (CASE c[DetOrder[k]] = "absent" -> <<>>
            [] c[DetOrder[k]] = "sci" ->
                 <<[meta |-> FALSE, det |-> DetOrder[k], value |-> Images(DetOrder[k], ver)]>>
            [] c[DetOrder[k]] = "sci_empty" ->
                 <<[meta |-> FALSE, det |-> DetOrder[k],
                    value |-> Images(DetOrder[k], ver) @@ [specobjs |-> <<>>]]>>
            [] OTHER ->
                 <<[meta |-> FALSE, det |-> DetOrder[k],
                    value |-> Images(DetOrder[k], ver)
                                 @@ [specobjs |-> <<Obj("opt", DetOrder[k])>>]]>>)
         \o dict_entries(c, ver, k + 1)

SciDicts(ver) ==
    {<<MetaEntry>> \o dict_entries(c, ver, 1) :
        c \in [Detectors -> {"absent", "sci", "sci_empty", "sci_objs"}]}

\* the number of save_all calls made so far
saCalls == IF sa = Idle THEN 0 ELSE sa.n

SaveAll ==
    \E sci_dict \in SciDicts(saCalls + 1), update_det \in UpdateDets, spectrograph \in Spectrographs :
        LET result == save_all(sci_dict, spectrograph, update_det, [given |-> FALSE], fits)
        IN  /\ saCalls < MaxCalls
            /\ sa' = [op |-> "save_all", n |-> saCalls + 1,
                      in |-> [sci_dict |-> sci_dict, update_det |-> update_det,
                              spectrograph |-> spectrograph],
                      out |-> [status |-> result.status, warn |-> result.warn,
                               written |-> result.written]]
            /\ fits' = result.file
            /\ UNCHANGED <<wc, bw, ec, rb, wi, co, sv, oi, ft, bp, ql, rt, cd, pw, vars3>>

SpecSaveAll == Init /\ [][SaveAll]_vars

saCalled == sa.op = "save_all"

\* some entry of sci_dict carries at least one extracted object
saHasObjects ==
    \E k \in DOMAIN sa.in.sci_dict :
        /\ "specobjs" \in DOMAIN sa.in.sci_dict[k].value
        /\ sa.in.sci_dict[k].value.specobjs # <<>>

\* what save_all itself decides, whenever save_2d_images returns
saOutcome ==
    (saCalled /\ sa.out.status = "ok") =>
        IF saHasObjects
        THEN sa.out.written = <<"spec1d.fits", "spec1d.txt", "spec2d.fits">> /\ sa.out.warn = {}
        ELSE sa.out.written = <<"spec2d.fits">> /\ sa.out.warn # {}

\* C12: with no object to collect save_all warns, writes neither 1D file and
\* still writes the spec2d file; with at least one object all three files
\* are written, the 1D file and the table before the 2D file.
C12_OneDSkippedTwoDWritten ==
    saCalled =>
        IF saHasObjects
        THEN sa.out.written = <<"spec1d.fits", "spec1d.txt", "spec2d.fits">>
        ELSE sa.out.written = <<"spec2d.fits">> /\ sa.out.warn # {}

---------------------------------------------------------------------------
(* KeckKCWISpectrograph.check_frame_type and lamps.  fitstbl is a sequence  *)
(* of rows; a row holds the four lampstat and lampshst columns, hatch,      *)
(* calpos, and whether its exposure time passes check_frame_exptime.        *)

\* np.all(..., axis=0) and np.any(..., axis=0) over the rows of a stack of
\* per-frame boolean columns
np_all_axis0(cols, n) == [i \in 1..n |-> \A k \in DOMAIN cols : cols[k][i]]

np_any_axis0(cols, n) == [i \in 1..n |-> \E k \in DOMAIN cols : cols[k][i]]

\* the column fitstbl[key + 'NN'] == value
column_is(fitstbl, key, lamp, value) == [i \in DOMAIN fitstbl |-> fitstbl[i][key][lamp] = value]

lamps_arcs_shutter_ignored(fitstbl, status) ==
    LET n == Len(fitstbl) IN
    CASE status = "off" ->
           [status |-> "ok",
            sel |-> np_all_axis0([k \in 1..4 |->
                        [i \in 1..n |-> column_is(fitstbl, "lampstat", k, "0")[i]
                                        \/ column_is(fitstbl, "lampstat", k, "None")[i]]], n)]
      [] status = "arcs" ->
           [status |-> "ok",
            sel |-> np_any_axis0([k \in 1..2 |->
                        [i \in 1..n |-> /\ column_is(fitstbl, "lampstat", k, "1")[i]
                                        /\ column_is(fitstbl, "lampstat", 4, "0")[i]]], n)]
      [] status \in {"dome_noarc", "dome"} ->
           [status |-> "ok",
            sel |-> IF status = "dome_noarc"
                    THEN np_any_axis0([k \in 1..2 |->
                             [i \in 1..n |-> /\ column_is(fitstbl, "lampstat", 4, "1")[i]
                                             /\ column_is(fitstbl, "lampstat", k, "0")[i]]], n)
                    ELSE np_any_axis0(<<column_is(fitstbl, "lampstat", 4, "1")>>, n)]
      [] OTHER -> [status |-> "ValueError", sel |-> <<>>]

lamps(fitstbl, status) ==
    LET n == Len(fitstbl) IN
    CASE status = "off" ->
           [status |-> "ok",
            sel |-> np_all_axis0([k \in 1..4 |->
                        [i \in 1..n |-> column_is(fitstbl, "lampstat", k, "0")[i]
                                        \/ column_is(fitstbl, "lampstat", k, "None")[i]]], n)]
      [] status = "arcs" ->
           [status |-> "ok",
            sel |-> np_any_axis0([k \in 1..2 |->
                        [i \in 1..n |-> /\ column_is(fitstbl, "lampstat", k, "1")[i]
                                        /\ column_is(fitstbl, "lampshst", k, "1")[i]
                                        /\ column_is(fitstbl, "lampstat", 4, "0")[i]]], n)]
      [] status \in {"dome_noarc", "dome"} ->
           [status |-> "ok",
            sel |-> IF status = "dome_noarc"
                    THEN np_any_axis0([k \in 1..2 |->
                             [i \in 1..n |-> /\ column_is(fitstbl, "lampstat", 4, "1")[i]
                                             /\ column_is(fitstbl, "lampstat", k, "0")[i]]], n)
                    ELSE np_any_axis0(<<column_is(fitstbl, "lampstat", 4, "1")>>, n)]
      [] OTHER -> [status |-> "ValueError", sel |-> <<>>]

\* good_exp & lamps & (hatch == h) & (calpos == c); c = "" when calpos is
\* not tested
frame_and_calpos_ignored(fitstbl, lamp_sel, h, c) ==
    [i \in DOMAIN fitstbl |->
        fitstbl[i].good_exp /\ lamp_sel[i] /\ fitstbl[i].hatch = h]

frame_and(fitstbl, lamp_sel, h, c) ==
    [i \in DOMAIN fitstbl |->
        /\ fitstbl[i].good_exp /\ lamp_sel[i] /\ fitstbl[i].hatch = h
        /\ (c = "" \/ fitstbl[i].calpos = c)]

\* mutant of check_frame_type: science is typed on a closed hatch and bias
\* on an open one
check_frame_type_hatch_swapped(ftype, fitstbl) ==
    CASE ftype = "science" ->
           [sel |-> frame_and(fitstbl, lamps(fitstbl, "off").sel, "0", ""), warn |-> {}]
      [] ftype = "bias" ->
           [sel |-> frame_and(fitstbl, lamps(fitstbl, "off").sel, "1", ""), warn |-> {}]
      [] OTHER -> [sel |-> [i \in DOMAIN fitstbl |-> FALSE], warn |-> {}]

check_frame_type(ftype, fitstbl) ==
    CASE ftype = "science" ->
           [sel |-> frame_and(fitstbl, lamps(fitstbl, "off").sel, "1", ""), warn |-> {}]
      [] ftype = "bias" ->
           [sel |-> frame_and(fitstbl, lamps(fitstbl, "off").sel, "0", ""), warn |-> {}]
      [] ftype \in {"pixelflat", "trace"} ->
           [sel |-> frame_and(fitstbl, lamps(fitstbl, "dome_noarc").sel, "0", "6"), warn |-> {}]
      [] ftype = "dark" ->
           [sel |-> frame_and(fitstbl, lamps(fitstbl, "off").sel, "0", ""), warn |-> {}]
      [] ftype = "bar" ->
           [sel |-> frame_and(fitstbl, lamps(fitstbl, "dome").sel, "0", "4"), warn |-> {}]
      [] ftype \in {"arc", "tilt"} ->
           [sel |-> frame_and(fitstbl, lamps(fitstbl, "arcs").sel, "0", ""), warn |-> {}]
      [] ftype = "pinhole" ->
           [sel |-> [i \in DOMAIN fitstbl |-> FALSE], warn |-> {}]
      [] OTHER ->
           [sel |-> [i \in DOMAIN fitstbl |-> FALSE],
            warn |-> {"Cannot determine if frames are of type"}]

\* the lamp status columns of a frame: FeAr, ThAr, Aux, Continuum
LampStats ==
    {<<"0", "0", "0", "0">>, <<"None", "None", "None", "None">>, <<"0", "None", "0", "None">>,
     <<"1", "0", "0", "0">>, <<"0", "1", "0", "0">>, <<"0", "0", "1", "0">>,
     <<"0", "0", "0", "1">>, <<"1", "1", "0", "1">>}

\* the shutter columns: the arc shutters open or closed; LMP3 has no shutter
LampShutters == {<<"1", "1", "0", "1">>, <<"0", "0", "0", "1">>}

Frames ==
    [lampstat : LampStats, lampshst : LampShutters, hatch : {"0", "1"},
     calpos : {"4", "6"}, good_exp : BOOLEAN]

\* a few frames for the tables of more than one row
FewFrames ==
    {f \in Frames : /\ f.lampstat \in {<<"0", "0", "0", "0">>, <<"1", "0", "0", "0">>}
                    /\ f.lampshst = <<"1", "1", "0", "1">> /\ f.calpos = "6" /\ f.good_exp}

FitsTables ==
    {<<>>} \cup {<<f>> : f \in Frames} \cup UNION {[1..n -> FewFrames] : n \in 2..MaxFrames}

FrameTypes ==
    {"science", "bias", "pixelflat", "trace", "dark", "bar", "arc", "tilt", "pinhole", "standard"}

CheckFrameType ==
    \E ftype \in FrameTypes, fitstbl \in FitsTables :
        /\ ft = Idle
        /\ ft' = [op |-> "check_frame_type", in |-> [ftype |-> ftype, fitstbl |-> fitstbl],
                  out |-> check_frame_type(ftype, fitstbl)]
        /\ UNCHANGED <<vars1, vars3, sa, oi, bp, ql, rt, cd, pw>>

SpecFrameType == Init /\ [][CheckFrameType]_vars

ftCalled == ft.op = "check_frame_type"

\* frame i passes the exposure-time filter and has every lamp status off
ftAllOff(i) ==
    /\ ft.in.fitstbl[i].good_exp
    /\ \A k \in 1..4 : ft.in.fitstbl[i].lampstat[k] \in {"0", "None"}

\* C14: with the exposure-time filter passing, a frame with every lamp
\* status off and hatch '1' is typed science; with hatch '0' it is typed bias
\* and not science; pinhole is all-false for every table; an unknown type is
\* all-false with a warning.
C14_KcwiFrameTyping ==
    ftCalled =>
        /\ \A i \in DOMAIN ft.in.fitstbl :
              /\ (ft.in.ftype = "science" /\ ftAllOff(i) /\ ft.in.fitstbl[i].hatch = "1")
                    => ft.out.sel[i]
              /\ (ft.in.ftype = "science" /\ ft.in.fitstbl[i].hatch = "0") => ~ft.out.sel[i]
              /\ (ft.in.ftype = "bias" /\ ftAllOff(i) /\ ft.in.fitstbl[i].hatch = "0")
                    => ft.out.sel[i]
        /\ Len(ft.out.sel) = Len(ft.in.fitstbl)
        /\ ft.in.ftype = "pinhole" => (ft.out.warn = {} /\ \A i \in DOMAIN ft.out.sel : ~ft.out.sel[i])
        /\ ft.in.ftype = "standard" => (ft.out.warn # {} /\ \A i \in DOMAIN ft.out.sel : ~ft.out.sel[i])

\* a science request on a table holding a lamps-off frame with the hatch open
C14_Witness ==
    /\ ftCalled /\ ft.in.ftype = "science" /\ Len(ft.in.fitstbl) = 1
    /\ ftAllOff(1) /\ ft.in.fitstbl[1].hatch = "1"
    /\ ft.in.fitstbl[1].lampstat[2] = "None"
    /\ ft.out.sel[1]

---------------------------------------------------------------------------
(* KeckKCWIBSpectrograph.bpm.  A mask is its shape and the set of its       *)
(* pixels (0-based row, column) set to 1.                                   *)

\* the bad-column table: rows of [first column, last column, first row,
\* last row]; <<>> stands for bc = None
bad_columns(ampmode, binning) ==
    LET all_tbo ==
          IF ampmode = "ALL"
          THEN (IF binning = "1,1" THEN <<<<3676, 3676, 2056, 2244>>>>
                ELSE IF binning = "2,2" THEN <<<<1838, 1838, 1028, 1121>>>>
                ELSE <<>>)
          ELSE IF ampmode = "TBO"
          THEN (IF binning = "1,1"
                THEN <<<<2622, 2622, 619, 687>>, <<2739, 2739, 1748, 1860>>,
                       <<3295, 3300, 2556, 2560>>, <<3675, 3676, 2243, 4111>>>>
                ELSE IF binning = "2,2"
                THEN <<<<1311, 1311, 310, 354>>, <<1369, 1369, 876, 947>>,
                       <<1646, 1650, 1278, 1280>>, <<1838, 1838, 1122, 2055>>>>
                ELSE <<>>)
          ELSE <<>>
    IN  IF ampmode = "TUP"
        THEN (IF binning = "1,1"
              THEN <<<<2622, 2622, 3492, 3528>>, <<3295, 3300, 1550, 1555>>,
                     <<3676, 3676, 1866, 4111>>>>
              ELSE IF binning = "2,2"
              THEN <<<<1311, 1311, 1745, 1788>>, <<1646, 1650, 775, 777>>,
                     <<1838, 1838, 933, 2055>>>>
              ELSE all_tbo)
        ELSE all_tbo

Min2(a, b) == IF a <= b THEN a ELSE b

\* mutant of slice_pixels: the stop of each slice is not raised by one
slice_pixels_exclusive(shape, r0, r1, c0, c1) ==
    {<<r, c>> : r \in r0..Min2(r1 - 1, shape[1] - 1), c \in c0..Min2(c1 - 1, shape[2] - 1)}

\* the pixels of bpm_img[r0:r1+1, c0:c1+1]: a slice stops at the edge of
\* the array
slice_pixels(shape, r0, r1, c0, c1) ==
    {<<r, c>> : r \in r0..Min2(r1, shape[1] - 1), c \in c0..Min2(c1, shape[2] - 1)}

bpm(shape, msbias, ampmode, binning) ==
    LET bc == bad_columns(ampmode, binning) IN
    IF msbias # "None"
    THEN [from |-> "bpm_frombias", shape |-> shape, bad |-> {}, warn |-> {}]
    ELSE [from |-> "table", shape |-> shape,
          bad |-> UNION {slice_pixels(shape, bc[bb][3], bc[bb][4], bc[bb][1], bc[bb][2]) :
                            bb \in DOMAIN bc},
          warn |-> IF bc = <<>> THEN {"Bad pixel mask is not available"} ELSE {}]

\* frame shapes: the unbinned and the 2x2 binned read-out, and smaller frames
BpmShapes == {<<4112, 4100>>, <<2056, 2050>>, <<2245, 3677>>, <<2100, 3677>>, <<100, 100>>}

AmpModes == {"ALL", "TBO", "TUP", "C"}

KcwiBinnings == {"1,1", "2,2", "1,2"}

Bpm ==
    \E shape \in BpmShapes, msbias \in {"None", "msbias"}, ampmode \in AmpModes, binning \in KcwiBinnings :
        /\ bp = Idle
        /\ bp' = [op |-> "bpm",
                  in |-> [shape |-> shape, msbias |-> msbias, ampmode |-> ampmode,
                          binning |-> binning],
                  out |-> bpm(shape, msbias, ampmode, binning)]
        /\ UNCHANGED <<vars1, vars3, sa, oi, ft, ql, rt, cd, pw>>

SpecBpm == Init /\ [][Bpm]_vars

bpCalled == bp.op = "bpm"

\* the (AMPMODE, BINNING) pairs the table has an entry for
bpTabulated == {<<a, b>> : a \in {"ALL", "TBO", "TUP"}, b \in {"1,1", "2,2"}}

\* C15: with no bias frame, AMPMODE 'ALL' and BINNING '1,1' (a frame that
\* holds row 2244 and column 3676) the mask is 1 exactly on rows 2056..2244
\* at column 3676; for a pair with no table entry it warns and returns the
\* all-good mask.
C15_KcwiBadColumn ==
    (bpCalled /\ bp.in.msbias = "None") =>
        /\ (bp.in.ampmode = "ALL" /\ bp.in.binning = "1,1"
               /\ bp.in.shape[1] > 2244 /\ bp.in.shape[2] > 3676)
              => /\ \A r \in 0..(bp.in.shape[1] - 1) :
                       (<<r, 3676>> \in bp.out.bad) = (2056 <= r /\ r <= 2244)
                 /\ \A px \in bp.out.bad : px[2] = 3676
                 /\ bp.out.warn = {}
        /\ <<bp.in.ampmode, bp.in.binning>> \notin bpTabulated
              => (bp.out.bad = {} /\ bp.out.warn # {})

\* the unbinned full frame read out through all amplifiers
C15_Witness ==
    /\ bpCalled /\ bp.in.msbias = "None" /\ bp.in.ampmode = "ALL" /\ bp.in.binning = "1,1"
    /\ bp.in.shape = <<4112, 4100>>
    /\ Cardinality(bp.out.bad) = 189

---------------------------------------------------------------------------
(* scripts/ql_keck_nires.main, step by step.  ql holds the position of the  *)
(* run (pc), its arguments and environment, the metadata table, the calls   *)
(* made so far in order (log) and how the run ended.                        *)

\* FrameTypeBitMask.turn_on: the flags named are set in value
turn_on(value, flags) == value \cup flags

\* file_bits: both entries are file_bits[0] with arc, science and tilt on
file_bits ==
    LET first == turn_on({}, {"arc", "science", "tilt"})
    IN  <<first, turn_on(first, {"arc", "science", "tilt"})>>

\* mutant of bkg_id: each row is paired with itself
bkg_id_self == <<1, 2>>

\* ps.fitstbl['bkg_id'] = [2,1]
bkg_id == <<2, 1>>

\* set_combination_groups: science frames are numbered from 1 in table order
set_combination_groups(nrows) == [i \in 1..nrows |-> i]

\* the metadata table after lines 44-58
ql_fitstbl(data_files) ==
    [i \in 1..2 |-> [filename |-> data_files[i], frametype |-> file_bits[i], setup |-> "A",
                     comb_id |-> set_combination_groups(2)[i], bkg_id |-> bkg_id[i]]]

\* mutant of check_master_dir: an unset NIRES_MASTERS is let through
check_master_dir_unchecked(master_dir) == "ok"

\* lines 61-63
check_master_dir(master_dir) == IF master_dir = "None" THEN "fatal" ELSE "ok"

\* the configuration lines that depend on the arguments
cfg_lines(master_dir, box_radius) ==
    <<"spectrograph = keck_nires", <<"caldir", master_dir>>, "cr_reject = False",
      "skip_optimal = True">>
        \o (IF box_radius # "None" THEN <<<<"boxcar_radius", box_radius>>>> ELSE <<>>)
        \o <<"skip_second_find = True">>

QlFileNames == {"a.fits", "b.fits", "c.fits"}

QlSetup ==
    \E fileA, fileB \in QlFileNames, master_dir \in {"None", "masters"}, box_radius \in {"None", "2.0"} :
        /\ ql = Idle
        /\ ql' = [op |-> "main", pc |-> "calibrations",
                  in |-> [fileA |-> fileA, fileB |-> fileB, box_radius |-> box_radius,
                          NIRES_MASTERS |-> master_dir],
                  fitstbl |-> ql_fitstbl(<<fileA, fileB>>),
                  cfg_lines |-> <<>>, ofiles |-> 0,
                  log |-> <<"PypeItSetup", "build_fitstbl", "set_frame_types",
                            "set_combination_groups">>,
                  status |-> "running"]
        /\ UNCHANGED <<vars1, vars3, sa, oi, ft, bp, rt, cd, pw>>

QlCalibrations ==
    /\ ql # Idle /\ ql.pc = "calibrations"
    /\ ql' = IF check_master_dir(ql.in.NIRES_MASTERS) = "fatal"
             THEN [ql EXCEPT !.pc = "done", !.status = "fatal"]
             ELSE [ql EXCEPT !.pc = "write",
                             !.cfg_lines = cfg_lines(ql.in.NIRES_MASTERS, ql.in.box_radius)]
    /\ UNCHANGED <<vars1, vars3, sa, oi, ft, bp, rt, cd, pw>>

\* write_pypeit returns the list of the files it wrote
QlWrite ==
    \E n \in 0..2 :
        /\ ql # Idle /\ ql.pc = "write"
        /\ ql' = IF n > 1
                 THEN [ql EXCEPT !.pc = "done", !.status = "fatal", !.ofiles = n,
                                 !.log = Append(ql.log, "write_pypeit")]
                 ELSE [ql EXCEPT !.pc = "instantiate", !.ofiles = n,
                                 !.log = Append(ql.log, "write_pypeit")]
        /\ UNCHANGED <<vars1, vars3, sa, oi, ft, bp, rt, cd, pw>>

\* pypeit.PypeIt(ofiles[0], ...)
QlInstantiate ==
    /\ ql # Idle /\ ql.pc = "instantiate"
    /\ ql' = IF ql.ofiles = 0
             THEN [ql EXCEPT !.pc = "done", !.status = "IndexError"]
             ELSE [ql EXCEPT !.pc = "reduce", !.log = Append(ql.log, "PypeIt")]
    /\ UNCHANGED <<vars1, vars3, sa, oi, ft, bp, rt, cd, pw>>

QlReduceAll ==
    /\ ql # Idle /\ ql.pc = "reduce"
    /\ ql' = [ql EXCEPT !.pc = "qa", !.log = Append(ql.log, "reduce_all")]
    /\ UNCHANGED <<vars1, vars3, sa, oi, ft, bp, rt, cd, pw>>

QlBuildQa ==
    /\ ql # Idle /\ ql.pc = "qa"
    /\ ql' = [ql EXCEPT !.pc = "return", !.log = Append(ql.log, "build_qa")]
    /\ UNCHANGED <<vars1, vars3, sa, oi, ft, bp, rt, cd, pw>>

QlReturn ==
    /\ ql # Idle /\ ql.pc = "return"
    /\ ql' = [ql EXCEPT !.pc = "done", !.status = "returned 0"]
    /\ UNCHANGED <<vars1, vars3, sa, oi, ft, bp, rt, cd, pw>>

QlNext ==
    \/ QlSetup \/ QlCalibrations \/ QlWrite \/ QlInstantiate
    \/ QlReduceAll \/ QlBuildQa \/ QlReturn

SpecQuickLook == Init /\ [][QlNext]_vars

qlStarted == ql.op = "main"

\* the position of call c in the log, 0 when it has not been made
qlAt(c) == IF \E k \in DOMAIN ql.log : ql.log[k] = c
           THEN CHOOSE k \in DOMAIN ql.log : ql.log[k] = c ELSE 0

\* C16: for any two filenames both rows carry arc, science and tilt at once,
\* both have setup 'A', and each row's background id designates the other
\* row.
C16_QuickLookTable ==
    qlStarted =>
        /\ Len(ql.fitstbl) = 2
        /\ \A i \in 1..2 :
              /\ {"arc", "science", "tilt"} \subseteq ql.fitstbl[i].frametype
              /\ ql.fitstbl[i].setup = "A"
        /\ ql.fitstbl[1].bkg_id = ql.fitstbl[2].comb_id
        /\ ql.fitstbl[2].bkg_id = ql.fitstbl[1].comb_id
        /\ ql.fitstbl[1].comb_id # ql.fitstbl[2].comb_id

\* the table of a run given the same file twice
C16_Witness ==
    /\ qlStarted /\ ql.in.fileA = ql.in.fileB
    /\ ql.fitstbl[1].filename = ql.fitstbl[2].filename
    /\ ql.fitstbl[1].bkg_id = 2

\* C17: with NIRES_MASTERS unset the run ends in the fatal error before the
\* configuration file is written and before the pipeline object is created;
\* the pipeline object is created only when exactly one configuration file
\* was written (more than one is fatal); QA generation starts only after
\* reduce_all; 0 is returned only after QA generation.
C17_QuickLookOrder ==
    qlStarted =>
        /\ ql.in.NIRES_MASTERS = "None" =>
              /\ qlAt("write_pypeit") = 0 /\ qlAt("PypeIt") = 0
              /\ ql.pc # "calibrations" => (ql.pc = "done" /\ ql.status = "fatal")
        /\ qlAt("PypeIt") > 0 => (ql.ofiles = 1 /\ qlAt("write_pypeit") < qlAt("PypeIt")
                                  /\ qlAt("write_pypeit") > 0)
        /\ ql.ofiles > 1 => (ql.status = "fatal" /\ qlAt("PypeIt") = 0)
        /\ qlAt("build_qa") > 0 => (0 < qlAt("reduce_all") /\ qlAt("reduce_all") < qlAt("build_qa"))
        /\ qlAt("reduce_all") > 0 => (0 < qlAt("PypeIt") /\ qlAt("PypeIt") < qlAt("reduce_all"))
        /\ ql.status = "returned 0" => qlAt("build_qa") = Len(ql.log)

\* a run that ended in the fatal error for the unset variable
C17_Witness ==
    /\ qlStarted /\ ql.in.NIRES_MASTERS = "None" /\ ql.pc = "done" /\ ql.status = "fatal"
    /\ ql.cfg_lines = <<>>

---------------------------------------------------------------------------
(* reference_trace_stack: the module-level function and the MultiSlit and   *)
(* Echelle methods.  offsets and objid are NoneArg or a sequence with one    *)
(* entry per exposure; traces are in half pixels.  msgs has no attribute    *)
(* 'errror', so that call raises AttributeError; len(None) and indexing a   *)
(* dict with a slice raise TypeError.                                       *)

NoneArg == [is_none |-> TRUE]

Given(x) == [is_none |-> FALSE, v |-> x]

\* the slit boundaries of exposure iexp for the one slit modelled
slit_left(iexp, nspec) == [r \in 1..nspec |-> 10 * iexp + r]

slit_righ(iexp, nspec) == [r \in 1..nspec |-> 10 * iexp + r + 6]

\* the trace of object objid in exposure iexp
trace_spat(iexp, objid, nspec) == [r \in 1..nspec |-> 2 * (10 * iexp + 2 * objid + r)]

\* Coadd2d.offset_slit_cen: the slit centre plus the offset, per exposure;
\* len(offsets) raises TypeError for None
offset_slit_cen(nexp, nspec, offsets) ==
    IF offsets.is_none THEN [status |-> "TypeError"]
    ELSE [status |-> "ok",
          ref_trace_stack |->
              [iexp \in 1..nexp |->
                  [r \in 1..nspec |-> slit_left(iexp, nspec)[r] + slit_righ(iexp, nspec)[r]
                                         + 2 * offsets.v[iexp]]]]

\* the objid branch: the trace of the reference object of each exposure
objid_traces(nexp, nspec, objid) ==
    [status |-> "ok",
     ref_trace_stack |-> [iexp \in 1..nexp |-> trace_spat(iexp, objid.v[iexp], nspec)]]

\* the module-level function: tslits_dict[:, slitid] indexes a dict with a slice
reference_trace_stack(nexp, nspec, offsets, objid) ==
    IF ~offsets.is_none /\ ~objid.is_none THEN [status |-> "AttributeError"]
    ELSE IF offsets.is_none /\ objid.is_none THEN [status |-> "TypeError"]
    ELSE IF ~offsets.is_none THEN [status |-> "TypeError"]
    ELSE objid_traces(nexp, nspec, objid)

MultiSlit_reference_trace_stack(nexp, nspec, offsets, objid) ==
    offset_slit_cen(nexp, nspec, offsets)

Echelle_reference_trace_stack(nexp, nspec, offsets, objid) ==
    IF ~offsets.is_none /\ ~objid.is_none THEN [status |-> "AttributeError"]
    ELSE IF offsets.is_none /\ objid.is_none THEN [status |-> "TypeError"]
    ELSE IF ~offsets.is_none THEN offset_slit_cen(nexp, nspec, offsets)
    ELSE objid_traces(nexp, nspec, objid)

resolve_reference_trace(family, nexp, nspec, offsets, objid) ==
    CASE family = "MultiSlit" -> MultiSlit_reference_trace_stack(nexp, nspec, offsets, objid)
      [] family = "Echelle" -> Echelle_reference_trace_stack(nexp, nspec, offsets, objid)
      [] OTHER -> reference_trace_stack(nexp, nspec, offsets, objid)

RefTraceFamilies == {"module", "MultiSlit", "Echelle"}

OffsetArgs(nexp) == {NoneArg} \cup {Given(o) : o \in [1..nexp -> 0..MaxShift]}

ObjidArgs(nexp) == {NoneArg} \cup {Given(o) : o \in [1..nexp -> 1..2]}

ReferenceTraceStack ==
    \E family \in RefTraceFamilies, nexp \in 1..MaxExp :
      \E offsets \in OffsetArgs(nexp), objid \in ObjidArgs(nexp) :
        /\ rt = Idle
        /\ rt' = [op |-> "reference_trace_stack",
                  in |-> [family |-> family, nexp |-> nexp, offsets |-> offsets, objid |-> objid],
                  out |-> resolve_reference_trace(family, nexp, NSpec, offsets, objid)]
        /\ UNCHANGED <<vars1, vars3, sa, oi, ft, bp, ql, cd, pw>>

SpecRefTrace == Init /\ [][ReferenceTraceStack]_vars

rtCalled == rt.op = "reference_trace_stack"

\* C18: reference-trace resolution ends in the fatal error of msgs.error
\* whenever both offsets and objid are supplied and whenever neither is; it
\* returns a trace stack only when exactly one of the two is supplied.
C18_BothOrNeitherFatal ==
    rtCalled =>
        /\ (rt.in.offsets.is_none = rt.in.objid.is_none) => rt.out.status = "fatal"
        /\ rt.out.status = "ok" => (rt.in.offsets.is_none # rt.in.objid.is_none)

---------------------------------------------------------------------------
(* The weights argument of the Coadd2d drivers.  A Python string is the     *)
(* sequence of its characters, so that 'auto' in weights is the substring   *)
(* test Python performs; a list, ndarray or tuple holds numeric weights.    *)

Str(chars) == [kind |-> "str", v |-> chars]

NumSeq(kind, values) == [kind |-> kind, v |-> values]

NoneWeights == [kind |-> "none"]

AUTO == <<"a", "u", "t", "o">>

UNIFORM == <<"u", "n", "i", "f", "o", "r", "m">>

AUTO_ECHELLE == AUTO \o <<"_", "e", "c", "h", "e", "l", "l", "e">>

is_str(weights, chars) == weights.kind = "str" /\ weights.v = chars

is_substring(needle, hay) ==
    \E i \in 0..(Len(hay) - Len(needle)) : SubSeq(hay, i + 1, i + Len(needle)) = needle

\* Python's  needle in weights  for a string needle: substring test on a
\* string, element test on a sequence (no number equals a string), TypeError
\* on None
py_in(needle, weights) ==
    CASE weights.kind = "str" -> [status |-> "ok", v |-> is_substring(needle, weights.v)]
      [] weights.kind = "none" -> [status |-> "TypeError", v |-> FALSE]
      [] OTHER -> [status |-> "ok", v |-> FALSE]

isinstance_list_or_ndarray(weights) == weights.kind \in {"list", "ndarray"}

\* the use-case check at the head of Coadd2d.__init__
init_check_uniform_rejected(offsets, weights) ==
    IF offsets.is_none THEN "pass"
    ELSE LET c == py_in(UNIFORM, weights)
         IN  IF c.status # "ok" THEN c.status ELSE IF c.v THEN "fatal" ELSE "pass"

init_check(offsets, weights) ==
    IF offsets.is_none THEN "pass"
    ELSE LET c == py_in(AUTO, weights)
         IN  IF c.status # "ok" THEN c.status ELSE IF c.v THEN "fatal" ELSE "pass"

\* the result of optimal_weights(..., const_weights=True)
OptimalWeights == [kind |-> "optimal"]

MultiSlit_parse_weights(weights, nexp) ==
    LET a == py_in(AUTO, weights)
        u == py_in(UNIFORM, weights)
    IN  IF a.status # "ok" THEN [status |-> a.status]
        ELSE IF a.v THEN [status |-> "ok", v |-> OptimalWeights]
        ELSE IF u.v THEN [status |-> "ok", v |-> Str(UNIFORM)]
        ELSE IF isinstance_list_or_ndarray(weights)
             THEN IF Len(weights.v) # nexp THEN [status |-> "fatal"]
                  ELSE [status |-> "ok", v |-> weights]
        ELSE [status |-> "fatal"]

Echelle_parse_weights(weights, nexp) ==
    LET a == py_in(AUTO, weights)
        u == py_in(UNIFORM, weights)
    IN  IF a.status # "ok" THEN [status |-> a.status]
        ELSE IF a.v THEN [status |-> "ok", v |-> Str(AUTO_ECHELLE)]
        ELSE IF u.v THEN [status |-> "ok", v |-> Str(UNIFORM)]
        ELSE IF isinstance_list_or_ndarray(weights)
             THEN IF Len(weights.v) # nexp THEN [status |-> "fatal"]
                  ELSE [status |-> "ok", v |-> weights]
        ELSE [status |-> "fatal"]

parse_weights(family, weights, nexp) ==
    IF family = "MultiSlit" THEN MultiSlit_parse_weights(weights, nexp)
    ELSE Echelle_parse_weights(weights, nexp)

\* compute_coadd2d: 'uniform' becomes np.ones(nimgs)/float(nimgs)
resolve_weights(weights, nimgs) ==
    IF py_in(UNIFORM, weights).v THEN [kind |-> "resolved", v |-> [i \in 1..nimgs |-> Div(1, nimgs)]]
    ELSE weights

Coadd2dFamilies == {"MultiSlit", "Echelle"}

WeightStrings ==
    {AUTO, UNIFORM, AUTO \o <<"s">>, <<"n", "o", "n">> \o UNIFORM, <<"n", "o", "n", "e">>, <<>>}

WeightValues == 1..2

NumSeqs == UNION {[1..n -> WeightValues] : n \in 0..(MaxExp + 1)}

WeightArgs ==
    {Str(c) : c \in WeightStrings} \cup {NoneWeights}
        \cup {NumSeq(k, w) : k \in {"list", "ndarray", "tuple"}, w \in NumSeqs}

ParseWeights ==
    \E family \in Coadd2dFamilies, nexp \in 1..MaxExp, weights \in WeightArgs :
        /\ pw = Idle
        /\ pw' = [op |-> "parse_weights",
                  in |-> [family |-> family, nexp |-> nexp, weights |-> weights],
                  out |-> parse_weights(family, weights, nexp)]
        /\ UNCHANGED <<vars1, vars3, sa, oi, ft, bp, ql, rt, cd>>

SpecParseWeights == Init /\ [][ParseWeights]_vars

pwCalled == pw.op = "parse_weights"

pwSeqOfLen(n) == isinstance_list_or_ndarray(pw.in.weights) /\ Len(pw.in.weights.v) = n

\* C20: parse_weights of both families accepts only the literal 'auto', the
\* literal 'uniform' and a list or array with one weight per exposure; a
\* sequence of any other length and every other input, including every
\* string other than exactly 'auto' or 'uniform', is a fatal error; 'uniform'
\* is returned unchanged and becomes 1/N per exposure only in compute_coadd2d.
C20_ParseWeightsAccepts ==
    pwCalled =>
        IF is_str(pw.in.weights, AUTO) THEN pw.out.status = "ok"
        ELSE IF is_str(pw.in.weights, UNIFORM)
             THEN /\ pw.out.status = "ok"
                  /\ is_str(pw.out.v, UNIFORM)
                  /\ resolve_weights(pw.out.v, pw.in.nexp).v
                         = [i \in 1..pw.in.nexp |-> Div(1, pw.in.nexp)]
        ELSE IF pwSeqOfLen(pw.in.nexp) THEN pw.out.status = "ok" /\ pw.out.v = pw.in.weights
        ELSE pw.out.status = "fatal"

---------------------------------------------------------------------------
(* Coadd2d.__init__ followed by the rest of the subclass constructor, one   *)
(* step per block of statements.  attrs is the set of attributes of the     *)
(* driver that have been assigned, loaded tells whether                     *)
(* load_coadd2d_stacks has run, at names the step that raised.              *)

BaseAttrs ==
    {"spec2d_files", "spectrograph", "det", "offsets", "weights", "ir_redux", "show",
     "show_peaks", "debug_offsets", "debug", "stack_dict", "psuedo_dict", "objid_bri",
     "slitid_bri", "snr_bar_bri"}

LoadAttrs == {"pypeline", "par"}

ShapeAttrs == {"nslits", "nexp", "nspec", "binning", "sn_smooth_npix"}

WaveAttrs == {"wave_grid", "wave_grid_mid", "dsamp"}

cdRaise(status, at) == [cd EXCEPT !.pc = "raised", !.status = status, !.at = at]

CdConstruct ==
    \E family \in Coadd2dFamilies, nexp \in 1..MaxExp, slits_agree \in BOOLEAN :
      \E offsets \in OffsetArgs(nexp), weights \in WeightArgs :
        /\ cd = Idle
        /\ cd' = [op |-> "__init__",
                  in |-> [family |-> family, nexp |-> nexp, offsets |-> offsets,
                          weights |-> weights, slits_agree |-> slits_agree],
                  pc |-> "check", attrs |-> {}, loaded |-> FALSE,
                  status |-> "running", at |-> "none",
                  offsets |-> NoneArg, objid_bri |-> NoneArg, slitid_bri |-> NoneArg,
                  use_weights |-> NoneWeights, ref_trace |-> "none", optimal_objid |-> NoneArg]
        /\ UNCHANGED <<vars1, vars3, sa, oi, ft, bp, ql, rt, pw>>

CdCheck ==
    /\ cd # Idle
    /\ cd.pc = "check"
    /\ LET c == init_check(cd.in.offsets, cd.in.weights)
       IN  cd' = IF c = "pass" THEN [cd EXCEPT !.pc = "attrs"] ELSE cdRaise(c, "check")
    /\ UNCHANGED <<vars1, vars3, sa, oi, ft, bp, ql, rt, pw>>

CdSetAttrs ==
    /\ cd # Idle
    /\ cd.pc = "attrs"
    /\ cd' = [cd EXCEPT !.pc = "load", !.attrs = BaseAttrs, !.offsets = cd.in.offsets]
    /\ UNCHANGED <<vars1, vars3, sa, oi, ft, bp, ql, rt, pw>>

CdLoad ==
    /\ cd # Idle
    /\ cd.pc = "load"
    /\ cd' = IF cd.in.slits_agree
             THEN [cd EXCEPT !.pc = "subclass", !.loaded = TRUE,
                             !.attrs = @ \cup LoadAttrs \cup ShapeAttrs]
             ELSE [cdRaise("fatal", "load") EXCEPT !.loaded = TRUE, !.attrs = @ \cup LoadAttrs]
    /\ UNCHANGED <<vars1, vars3, sa, oi, ft, bp, ql, rt, pw>>

\* the rest of the subclass constructor: the brightest-object search when
\* offsets is None (MultiSlit: compute_offsets, Echelle: get_brightest_obj),
\* which succeeds or ends in its fatal error, then parse_weights
CdSubclass ==
    /\ cd # Idle
    /\ cd.pc = "subclass"
    /\ \E found \in BOOLEAN :
         LET r == parse_weights(cd.in.family, cd.in.weights, cd.in.nexp)
             searched == [cd EXCEPT !.attrs = @ \cup WaveAttrs,
                                    !.objid_bri = Given([i \in 1..cd.in.nexp |-> 1]),
                                    !.slitid_bri = Given(0),
                                    !.offsets = IF cd.in.family = "MultiSlit"
                                                THEN Given([i \in 1..cd.in.nexp |-> 0]) ELSE @]
             before_parse == IF cd.in.offsets.is_none THEN searched
                             ELSE [cd EXCEPT !.attrs = @ \cup WaveAttrs]
         IN  /\ ~cd.in.offsets.is_none => found
             /\ cd' = IF ~found
                      THEN [cdRaise("fatal", "get_brightest_obj") EXCEPT !.attrs = @ \cup WaveAttrs]
                      ELSE IF r.status = "ok"
                      THEN [before_parse EXCEPT !.pc = "done", !.status = "ok",
                                                !.attrs = @ \cup {"use_weights"},
                                                !.use_weights = r.v]
                      ELSE [before_parse EXCEPT !.pc = "raised", !.status = r.status,
                                                !.at = "parse_weights"]
    /\ UNCHANGED <<vars1, vars3, sa, oi, ft, bp, ql, rt, pw>>

\* the first iteration of the loop of coadd(): the reference trace of the
\* slit and the object id handed to optimal_weights
CdCoadd ==
    /\ cd # Idle
    /\ cd.pc = "done"
    /\ cd' = [cd EXCEPT !.pc = "coadded",
                        !.ref_trace = resolve_reference_trace(cd.in.family, cd.in.nexp, NSpec,
                                                              cd.offsets, cd.objid_bri).status,
                        !.optimal_objid = IF py_in(AUTO_ECHELLE, cd.use_weights).v
                                          THEN cd.objid_bri ELSE @]
    /\ UNCHANGED <<vars1, vars3, sa, oi, ft, bp, ql, rt, pw>>

CdNext == CdConstruct \/ CdCheck \/ CdSetAttrs \/ CdLoad \/ CdSubclass \/ CdCoadd

SpecCoadd2dInit == Init /\ [][CdNext]_vars

cdChecked == cd # Idle /\ cd.pc # "check"

cdOffsetsAndAuto == ~cd.in.offsets.is_none /\ is_str(cd.in.weights, AUTO)

\* the weights the constructor documents: 'auto', 'uniform' or one weight per exposure
cdListedWeights ==
    \/ is_str(cd.in.weights, AUTO)
    \/ is_str(cd.in.weights, UNIFORM)
    \/ (cd.in.weights.kind \in {"list", "ndarray", "tuple"} /\ Len(cd.in.weights.v) = cd.in.nexp)

\* C19: constructing a driver of either family with offsets supplied and
\* weights 'auto' ends in a fatal error before any stack is loaded and before
\* any attribute is set; every other combination of offsets (supplied or
\* not) and weights ('auto', 'uniform' or one weight per exposure) passes
\* the check.
C19_AutoWithOffsetsFatal ==
    cdChecked =>
        /\ cdOffsetsAndAuto =>
              (cd.pc = "raised" /\ cd.status = "fatal" /\ cd.at = "check"
                  /\ cd.attrs = {} /\ ~cd.loaded)
        /\ (cdListedWeights /\ ~cdOffsetsAndAuto) => cd.at # "check"

C19_Witness ==
    /\ cdChecked
    /\ cdOffsetsAndAuto
    /\ cd.in.family = "Echelle"
    /\ cd.status = "fatal"
    /\ cd.attrs = {}

---------------------------------------------------------------------------
(* load_coadd2d_stacks: the lookup of the four image extensions of every    *)
(* 2D file.  A file is the list of its HDU names; exten is the local        *)
(* variable of the method, unbound (NoneArg) until a lookup succeeds and    *)
(* kept from one file to the next.                                          *)

ExtTags == <<"PROCESSED", "SKY", "IVARMODEL", "MASK">>

\* 'DET{:s}-PROCESSED'.format(sdet) and the like
ext_name(sdet, tag) == <<"DET", sdet, tag>>

\* names.index(name): the zero-based position, or ValueError
names_index(names, name) ==
    IF \E i \in 1..Len(names) : names[i] = name
    THEN [found |-> TRUE,
          v |-> (CHOOSE i \in 1..Len(names) :
                    names[i] = name /\ \A j \in 1..(i - 1) : names[j] # name) - 1]
    ELSE [found |-> FALSE, v |-> 0]

\* det_error_msg(exten, sdet) as called from the except clauses: an unbound
\* exten raises at the call; the first '{:s}' field rejects an integer;
\* msgs.error is called only with the formatted text
det_error_msg(exten, sdet) ==
    IF exten.is_none THEN "UnboundLocalError" ELSE "ValueError"

RECURSIVE read_extensions(_, _, _, _)
read_extensions(names, sdet, k, exten) ==
    IF k > Len(ExtTags) THEN [status |-> "ok", exten |-> exten]
    ELSE LET ix == names_index(names, ext_name(sdet, ExtTags[k]))
         IN  IF ~ix.found
             THEN [status |-> det_error_msg(exten, sdet), exten |-> exten]
             ELSE read_extensions(names, sdet, k + 1, Given(ix.v))

RECURSIVE load_coadd2d_stacks(_, _, _, _)
load_coadd2d_stacks(spec2d_files, sdet, ifile, exten) ==
    IF ifile > Len(spec2d_files) THEN [status |-> "ok", nexp |-> Len(spec2d_files)]
    ELSE LET r == read_extensions(spec2d_files[ifile], sdet, 1, exten)
         IN  IF r.status # "ok" THEN [status |-> r.status, nexp |-> 0]
             ELSE load_coadd2d_stacks(spec2d_files, sdet, ifile + 1, r.exten)

\* the HDU names of a 2D file of detector sdet holding the extensions in present
RECURSIVE hdu_names(_, _, _)
hdu_names(sdet, present, k) ==
    IF k > Len(ExtTags) THEN <<>>
    ELSE (IF ExtTags[k] \in present THEN <<ext_name(sdet, ExtTags[k])>> ELSE <<>>)
             \o hdu_names(sdet, present, k + 1)

Spec2dFile(sdet, present) == <<<<"PRIMARY">>>> \o hdu_names(sdet, present, 1)

ExtTagSet == {ExtTags[k] : k \in 1..Len(ExtTags)}

LoadCoadd2dStacks ==
    \E nfiles \in 1..MaxExp, det \in 1..2 :
      \E present \in [1..nfiles -> SUBSET ExtTagSet] :
        /\ ls = Idle
        /\ ls' = [op |-> "load_coadd2d_stacks",
                  in |-> [det |-> det, present |-> present],
                  out |-> load_coadd2d_stacks([i \in 1..nfiles |-> Spec2dFile(get_dnum(det), present[i])],
                                              get_dnum(det), 1, NoneArg)]
        /\ UNCHANGED <<vars1, vars2, gr, pi, bo>>

SpecLoadStacks == Init /\ [][LoadCoadd2dStacks]_vars

lsCalled == ls.op = "load_coadd2d_stacks"

lsMissing == \E i \in DOMAIN ls.in.present : ls.in.present[i] # ExtTagSet

\* C21: when any of the four extensions DET{det}-PROCESSED, -SKY, -IVARMODEL,
\* -MASK is absent from an input 2D file, load_coadd2d_stacks ends in the
\* fatal error of msgs.error, whichever extension is the missing one.
C21_MissingExtensionFatal ==
    (lsCalled /\ lsMissing) => ls.out.status = "fatal"

---------------------------------------------------------------------------
(* KeckKCWISpectrograph.get_rawimage: the file lookup, the gain list built  *)
(* from the primary header and the update of the detector parameters.  gr   *)
(* holds the gain of the driver's detector and the last call.               *)

MaxAmps == 2

\* gain = [0]*4 of the detector parameters of KeckKCWIBSpectrograph
DefaultGain == <<0, 0, 0, 0>>

\* the list built in the DSEC pass of the loop over the amplifiers
gainarr_without_gainmul(head0) == [i \in 1..head0.NVIDINP |-> head0.GAIN[i]]

gainarr(head0) == [i \in 1..head0.NVIDINP |-> head0.GAIN[i] * head0.GAINMUL]

\* set_detector_par('gain', det, gainarr, force_update=True)
set_detector_par(value) == value

get_rawimage(gain, nmatch, head0) ==
    IF nmatch # 1 THEN [status |-> "fatal", gain |-> gain]
    ELSE [status |-> "ok", gain |-> set_detector_par(gainarr(head0))]

Headers == [NVIDINP : 1..MaxAmps, GAINMUL : 1..2, GAIN : [1..MaxAmps -> 1..2]]

grGain == IF gr = Idle THEN DefaultGain ELSE gr.gain

grCalls == IF gr = Idle THEN 0 ELSE gr.calls

GetRawImage ==
    \E nmatch \in 0..2, head0 \in Headers :
        /\ grCalls < MaxCalls
        /\ LET r == get_rawimage(grGain, nmatch, head0)
           IN  gr' = [op |-> "get_rawimage", calls |-> grCalls + 1,
                      in |-> [nmatch |-> nmatch, head0 |-> head0],
                      before |-> grGain, status |-> r.status, gain |-> r.gain]
        /\ UNCHANGED <<vars1, vars2, ls, pi, bo>>

SpecRawImage == Init /\ [][GetRawImage]_vars

grCalled == gr.op = "get_rawimage"

\* C22: after every get_rawimage call the gain of the detector is the list
\* GAINn * GAINMUL, n = 1..NVIDINP, of the frame read by the call, one entry
\* per amplifier in amplifier order, when the call succeeded, and is what it
\* was before the call when the file lookup matched no file or several.
C22_GainFollowsLastFrame ==
    grCalled =>
        /\ gr.status = "ok" =>
              /\ gr.in.nmatch = 1
              /\ Len(gr.gain) = gr.in.head0.NVIDINP
              /\ \A n \in 1..gr.in.head0.NVIDINP :
                    gr.gain[n] = gr.in.head0.GAIN[n] * gr.in.head0.GAINMUL
        /\ gr.in.nmatch # 1 => (gr.status = "fatal" /\ gr.gain = gr.before)

C22_Witness ==
    /\ grCalled
    /\ gr.calls = 3
    /\ gr.in.nmatch = 2
    /\ gr.status = "fatal"
    /\ gr.gain = <<2, 4>>

---------------------------------------------------------------------------
(* lamps called with every status name, and the typing of one frame under   *)
(* every frame type, over all combinations of the lamp statuses, the arc    *)
(* shutters, the hatch and the calibration-turret position.                 *)

LampStatusValues == {"0", "1", "None"}

AllFrames ==
    {[lampstat |-> ls4, lampshst |-> sh \o <<"0", "1">>, hatch |-> h, calpos |-> c, good_exp |-> TRUE] :
        ls4 \in [1..4 -> LampStatusValues], sh \in [1..2 -> {"0", "1"}],
        h \in {"0", "1"}, c \in {"4", "6", "0"}}

LampTables == {<<f>> : f \in AllFrames} \cup UNION {[1..n -> FewFrames] : n \in 2..MaxFrames}

StatusNames == {"off", "arcs", "dome", "dome_noarc", "on", "arc"}

Lamps ==
    \E status \in StatusNames, fitstbl \in LampTables :
        /\ ft = Idle
        /\ ft' = [op |-> "lamps", in |-> [status |-> status, fitstbl |-> fitstbl],
                  out |-> lamps(fitstbl, status),
                  pixelflat |-> check_frame_type("pixelflat", fitstbl).sel,
                  trace |-> check_frame_type("trace", fitstbl).sel]
        /\ UNCHANGED <<vars1, vars3, sa, oi, bp, ql, rt, cd, pw>>

SpecLamps == Init /\ [][Lamps]_vars

lampsCalled == ft.op = "lamps"

lampOn(i, k) == ft.in.fitstbl[i].lampstat[k] = "1"

lampZero(i, k) == ft.in.fitstbl[i].lampstat[k] = "0"

shutterOpen(i, k) == ft.in.fitstbl[i].lampshst[k] = "1"

\* C23: lamps(fitstbl, 'dome_noarc') selects a frame only if the continuum
\* lamp status is '1' and both arc lamps report '0'; a frame with the
\* continuum lamp on and exactly one arc lamp on is not selected and is
\* typed neither pixelflat nor trace.
C23_DomeNoArcBothArcsOff ==
    (lampsCalled /\ ft.in.status = "dome_noarc") =>
        \A i \in DOMAIN ft.in.fitstbl :
            /\ ft.out.sel[i] => (lampOn(i, 4) /\ lampZero(i, 1) /\ lampZero(i, 2))
            /\ (lampOn(i, 4) /\ (lampOn(i, 1) # lampOn(i, 2)))
                  => (~ft.out.sel[i] /\ ~ft.pixelflat[i] /\ ~ft.trace[i])

\* C24: lamps(fitstbl, 'arcs') selects a frame exactly when an arc lamp has
\* status '1' with its own shutter '1' and the continuum lamp status is '0';
\* every status name other than off, arcs, dome, dome_noarc raises.
C24_ArcsSelection ==
    lampsCalled =>
        /\ ft.in.status = "arcs" =>
              /\ ft.out.status = "ok"
              /\ \A i \in DOMAIN ft.in.fitstbl :
                    ft.out.sel[i] <=> /\ \E k \in 1..2 : lampOn(i, k) /\ shutterOpen(i, k)
                                      /\ lampZero(i, 4)
        /\ ft.in.status \notin {"off", "arcs", "dome", "dome_noarc"} => ft.out.status = "ValueError"
        /\ ft.in.status \in {"off", "arcs", "dome", "dome_noarc"} => ft.out.status = "ok"

\* an arc lamp on behind its closed shutter while the other arc lamp is off
C24_Witness ==
    /\ lampsCalled /\ ft.in.status = "arcs" /\ Len(ft.in.fitstbl) = 1
    /\ lampOn(1, 1) /\ ~shutterOpen(1, 1) /\ shutterOpen(1, 2) /\ ~lampOn(1, 2)
    /\ lampZero(1, 4)
    /\ ~ft.out.sel[1]

---------------------------------------------------------------------------
(* the typing of one frame under every frame type of check_frame_type *)

TypedAs == {"science", "bias", "dark", "pixelflat", "trace", "bar", "arc", "tilt"}

FrameClasses ==
    \E f \in AllFrames :
        /\ ft = Idle
        /\ ft' = [op |-> "frame_classes", in |-> f,
                  out |-> [t \in TypedAs |-> check_frame_type(t, <<f>>).sel[1]]]
        /\ UNCHANGED <<vars1, vars3, sa, oi, bp, ql, rt, cd, pw>>

SpecFrameClasses == Init /\ [][FrameClasses]_vars

KcwiClasses == {{"science"}, {"bias", "dark"}, {"pixelflat", "trace"}, {"bar"}, {"arc", "tilt"}}

classTrue(c) == \E t \in c : ft.out[t]

\* C29: with the exposure-time filter passing, no frame is typed into two
\* of the classes {science}, {bias, dark}, {pixelflat, trace}, {bar},
\* {arc, tilt}, whatever its lamp statuses, shutters, hatch and turret
\* position.
C29_ClassesExclusive ==
    ft.op = "frame_classes" =>
        \A c1, c2 \in KcwiClasses : (classTrue(c1) /\ classTrue(c2)) => c1 = c2

\* a dome flat: continuum lamp on, arc lamps off, hatch closed, turret at 6
C29_Witness ==
    /\ ft.op = "frame_classes"
    /\ ft.in.lampstat[4] = "1" /\ ft.in.lampstat[1] = "0" /\ ft.in.hatch = "0"
    /\ ft.out["pixelflat"] /\ ft.out["trace"] /\ ~ft.out["bar"] /\ ~ft.out["arc"]

---------------------------------------------------------------------------
(* Coadd2d.create_psuedo_image: the mosaic of the per-slit coadds and the   *)
(* trim of the poorly sampled rows.  Rows and columns count from 0 as in    *)
(* the source, slits from 1.  An image is a function on <<row, column>>.    *)

nspat_pad == 10

MaxPsRows == 3

Pixels(nspec, nspat) == (0..(nspec - 1)) \X (0..(nspat - 1))

SetMax(S) == CHOOSE x \in S : \A y \in S : y <= x

SetMin(S) == CHOOSE x \in S : \A y \in S : x <= y

\* spat_left at the head of iteration islit of the placement loop
RECURSIVE spat_left_of(_, _)
spat_left_of(coadd_list, islit) ==
    IF islit = 1 THEN nspat_pad
    ELSE spat_left_of(coadd_list, islit - 1) + coadd_list[islit - 1].nspat + nspat_pad

spat_righ_of(coadd_list, islit) == spat_left_of(coadd_list, islit) + coadd_list[islit].nspat

\* the placement with every slit block one column to the right
place_shifted(coadd_list, key, zero, nspec, nspat) ==
    [p \in Pixels(nspec, nspat) |->
        LET hits == {i \in 1..Len(coadd_list) :
                        /\ p[1] < coadd_list[i].nspec
                        /\ p[2] > spat_left_of(coadd_list, i) /\ p[2] <= spat_righ_of(coadd_list, i)}
        IN  IF hits = {} THEN zero
            ELSE coadd_list[SetMax(hits)][key][<<p[1], p[2] - spat_left_of(coadd_list, SetMax(hits)) - 1>>]]

\* image[ispec, ispat] = coadd_dict[key] for every slit in turn, on an image
\* that starts as np.zeros(shape_psuedo): the last assignment to a pixel stays
place(coadd_list, key, zero, nspec, nspat) ==
    [p \in Pixels(nspec, nspat) |->
        LET hits == {i \in 1..Len(coadd_list) :
                        /\ p[1] < coadd_list[i].nspec
                        /\ p[2] >= spat_left_of(coadd_list, i) /\ p[2] < spat_righ_of(coadd_list, i)}
        IN  IF hits = {} THEN zero
            ELSE coadd_list[SetMax(hits)][key][<<p[1], p[2] - spat_left_of(coadd_list, SetMax(hits))>>]]

\* pixels.tslits2mask for vertical slit edges with pad = 0: the slit of a
\* pixel, 0 off the slits; open_left tells whether the left edge column is
\* off the slit
tslits2mask(coadd_list, nspec, nspat, open_left) ==
    [p \in Pixels(nspec, nspat) |->
        LET hits == {i \in 1..Len(coadd_list) :
                        /\ (IF open_left THEN p[2] > spat_left_of(coadd_list, i)
                                         ELSE p[2] >= spat_left_of(coadd_list, i))
                        /\ p[2] < spat_righ_of(coadd_list, i)}
        IN  IF hits = {} THEN 0 ELSE SetMax(hits)]

\* the index that mode='reflect' reads for position k of an axis of length n
reflect_index(k, n) == LET m == k % (2 * n) IN IF m < n THEN m ELSE 2 * n - 1 - m

\* scipy.ndimage.filters.median_filter(x, size=size, mode='reflect') of a
\* one-dimensional x: the element of rank size // 2 of the window starting
\* size // 2 before the position
median_filter(x, n, size) ==
    [i \in 0..(n - 1) |->
        SortSeq([j \in 1..size |-> x[reflect_index(i - (size \div 2) + (j - 1), n)]],
                LAMBDA a, b : a < b)[(size \div 2) + 1]]

\* width > min_slit_frac*med_slit_width with min_slit_frac = 0.70, on twice the median
above_frac(width, med2) == 20 * width > 7 * med2

below_frac(width, med2) == 20 * width < 7 * med2

\* one iteration of the trim loop, with bad_pix taken from the smoothed widths
trim_slit_smoothed_mask(inmask, slitmask, islit, nspec, nspat) ==
    LET rows == 0..(nspec - 1)
        slit_width == [r \in rows |->
                          Cardinality({c \in 0..(nspat - 1) : inmask[<<r, c>>] /\ slitmask[<<r, c>>] = islit})]
        on_slit == {p \in Pixels(nspec, nspat) : slitmask[p] = islit}
        ncol == Cardinality({c \in 0..(nspat - 1) : slitmask[<<0, c>>] = islit})
        med2 == np_median([k \in 1..(nspec * ncol) |-> slit_width[(k - 1) \div ncol]])
        nspec_eff == Cardinality({r \in rows : above_frac(slit_width[r], med2)})
        nsmooth == Max2((nspec_eff + 49) \div 50, 10)
        slit_width_sm == median_filter(slit_width, nspec, nsmooth)
        igood == {r \in rows : above_frac(slit_width_sm[r], med2)}
    IN  IF igood = {} THEN [status |-> "ValueError"]
        ELSE [status |-> "ok", slit_width |-> slit_width, med2 |-> med2, nspec_eff |-> nspec_eff,
              nsmooth |-> nsmooth, slit_width_sm |-> slit_width_sm,
              spec_min |-> SetMin(igood), spec_max |-> SetMax(igood),
              inmask |-> [p \in Pixels(nspec, nspat) |->
                             inmask[p] /\ ~(below_frac(slit_width_sm[p[1]], med2) /\ p \in on_slit)]]

\* one iteration of the trim loop
trim_slit(inmask, slitmask, islit, nspec, nspat) ==
    LET rows == 0..(nspec - 1)
        slit_width == [r \in rows |->
                          Cardinality({c \in 0..(nspat - 1) : inmask[<<r, c>>] /\ slitmask[<<r, c>>] = islit})]
        on_slit == {p \in Pixels(nspec, nspat) : slitmask[p] = islit}
        ncol == Cardinality({c \in 0..(nspat - 1) : slitmask[<<0, c>>] = islit})
        med2 == np_median([k \in 1..(nspec * ncol) |-> slit_width[(k - 1) \div ncol]])
        nspec_eff == Cardinality({r \in rows : above_frac(slit_width[r], med2)})
        nsmooth == Max2((nspec_eff + 49) \div 50, 10)
        slit_width_sm == median_filter(slit_width, nspec, nsmooth)
        igood == {r \in rows : above_frac(slit_width_sm[r], med2)}
    IN  IF igood = {} THEN [status |-> "ValueError"]
        ELSE [status |-> "ok", slit_width |-> slit_width, med2 |-> med2, nspec_eff |-> nspec_eff,
              nsmooth |-> nsmooth, slit_width_sm |-> slit_width_sm,
              spec_min |-> SetMin(igood), spec_max |-> SetMax(igood),
              inmask |-> [p \in Pixels(nspec, nspat) |->
                             inmask[p] /\ ~(below_frac(slit_width[p[1]], med2) /\ p \in on_slit)]]

\* the trim loop over the slits; trims collects the per-slit results
RECURSIVE trim_slits(_, _, _, _, _, _, _)
trim_slits(inmask, slitmask, islit, nslits, nspec, nspat, trims) ==
    IF islit > nslits THEN [status |-> "ok", inmask |-> inmask, trims |-> trims]
    ELSE LET t == trim_slit(inmask, slitmask, islit, nspec, nspat)
         IN  IF t.status # "ok" THEN [status |-> t.status]
             ELSE trim_slits(t.inmask, slitmask, islit + 1, nslits, nspec, nspat, Append(trims, t))

create_psuedo_image(coadd_list, open_left) ==
    LET nslits == Len(coadd_list)
        nspec_psuedo == SetMax({coadd_list[i].nspec : i \in 1..nslits})
        nspat_psuedo == SumFn([i \in 1..nslits |-> coadd_list[i].nspat], 1..nslits)
                            + (nslits + 1) * nspat_pad
        imgminsky_psuedo == place(coadd_list, "imgminsky", 0, nspec_psuedo, nspat_psuedo)
        inmask_psuedo == place(coadd_list, "outmask", FALSE, nspec_psuedo, nspat_psuedo)
        slitmask_psuedo == tslits2mask(coadd_list, nspec_psuedo, nspat_psuedo, open_left)
        trimmed == trim_slits(inmask_psuedo, slitmask_psuedo, 1, nslits, nspec_psuedo, nspat_psuedo, <<>>)
    IN  IF trimmed.status # "ok" THEN [status |-> trimmed.status]
        ELSE [status |-> "ok", nspec |-> nspec_psuedo, nspat |-> nspat_psuedo,
              imgminsky |-> imgminsky_psuedo, inmask |-> trimmed.inmask,
              placed_mask |-> inmask_psuedo, slitmask |-> slitmask_psuedo,
              slit_left |-> [i \in 1..nslits |-> spat_left_of(coadd_list, i)],
              slit_righ |-> [i \in 1..nslits |-> spat_righ_of(coadd_list, i)],
              trims |-> trimmed.trims]

\* the rows of a coadd: every pixel good, only the last column good, none good
RowKinds == {"good", "half", "bad"}

CoaddDict(nspat, kinds) ==
    [nspec |-> Len(kinds), nspat |-> nspat,
     imgminsky |-> [p \in Pixels(Len(kinds), nspat) |-> 1 + p[1] + 2 * p[2]],
     outmask |-> [p \in Pixels(Len(kinds), nspat) |->
                     CASE kinds[p[1] + 1] = "good" -> TRUE
                       [] kinds[p[1] + 1] = "half" -> p[2] = nspat - 1
                       [] OTHER -> FALSE]]

SlitWidths == {3, 4}

FirstSlits ==
    {CoaddDict(w, k) : w \in SlitWidths, k \in UNION {[1..n -> RowKinds] : n \in 1..MaxPsRows}}

\* the further slits of a mosaic of several slits
OtherSlits == {CoaddDict(3, <<"good">>), CoaddDict(4, <<"good", "half", "good">>)}

CoaddLists == {<<a>> : a \in FirstSlits} \cup {<<a, b>> : a \in FirstSlits, b \in OtherSlits}

CreatePsuedoImage ==
    \E coadd_list \in CoaddLists, open_left \in BOOLEAN :
        /\ pi = Idle
        /\ pi' = [op |-> "create_psuedo_image",
                  in |-> [coadd_list |-> coadd_list, open_left |-> open_left],
                  out |-> create_psuedo_image(coadd_list, open_left)]
        /\ UNCHANGED <<vars1, vars2, ls, gr, bo>>

SpecPsuedoImage == Init /\ [][CreatePsuedoImage]_vars

piCalled == pi.op = "create_psuedo_image"

piOk == piCalled /\ pi.out.status = "ok"

piSlits == 1..Len(pi.in.coadd_list)

piRows == 0..(pi.out.nspec - 1)

piOnSlit(i, r) == {p \in DOMAIN pi.out.slitmask : p[1] = r /\ pi.out.slitmask[p] = i}

\* the trim set a pixel of row r of slit i bad
piTrimmed(i, r) == \E p \in piOnSlit(i, r) : pi.out.placed_mask[p] /\ ~pi.out.inmask[p]

piWindow == \A i \in piSlits : pi.out.trims[i].nsmooth = Max2((pi.out.trims[i].nspec_eff + 49) \div 50, 10)

piL(i) == pi.out.slit_left[i]

piR(i) == pi.out.slit_righ[i]

piBlock(i) ==
    {p \in DOMAIN pi.out.imgminsky : p[2] >= piL(i) /\ p[2] < piR(i) /\ p[1] < pi.in.coadd_list[i].nspec}

\* C27: slit i lies in columns [L_i, R_i) with L_0 = 10, R_i = L_i + nspat_i
\* and L_(i+1) = R_i + 10; slits do not overlap, 10 empty columns lie before
\* the first slit, between slits and after the last, the width is
\* sum(nspat_i) + 10*(nslits+1), the spectral extent is max(nspec_i), slit i
\* fills rows 0..nspec_i-1, and every pixel outside the slit blocks is zero
\* and masked bad.
C27_MosaicLayout ==
    piOk =>
        LET cl == pi.in.coadd_list
            n == Len(cl)
        IN  /\ piL(1) = 10
            /\ \A i \in 1..n : piR(i) = piL(i) + cl[i].nspat
            /\ \A i \in 1..(n - 1) : piL(i + 1) = piR(i) + 10
            /\ piR(n) + 10 = pi.out.nspat
            /\ pi.out.nspat = SumFn([i \in 1..n |-> cl[i].nspat], 1..n) + 10 * (n + 1)
            /\ \A i \in 1..n : cl[i].nspec <= pi.out.nspec
            /\ \E i \in 1..n : cl[i].nspec = pi.out.nspec
            /\ DOMAIN pi.out.imgminsky = Pixels(pi.out.nspec, pi.out.nspat)
            /\ \A i, j \in 1..n : i # j => piBlock(i) \cap piBlock(j) = {}
            /\ \A i \in 1..n : \A p \in piBlock(i) :
                  /\ pi.out.imgminsky[p] = cl[i].imgminsky[<<p[1], p[2] - piL(i)>>]
                  /\ pi.out.placed_mask[p] = cl[i].outmask[<<p[1], p[2] - piL(i)>>]
            /\ \A p \in DOMAIN pi.out.imgminsky :
                  (\A i \in 1..n : p \notin piBlock(i)) => (pi.out.imgminsky[p] = 0 /\ ~pi.out.inmask[p])

\* two slits of different spectral extents and widths
C27_Witness ==
    /\ piOk /\ Len(pi.in.coadd_list) = 2
    /\ pi.in.coadd_list[1].nspec = 2 /\ pi.in.coadd_list[2].nspec = 3
    /\ pi.in.coadd_list[1].nspat = 3
    /\ pi.out.nspat = 37 /\ pi.out.nspec = 3
    /\ piL(2) = 23
    /\ pi.out.imgminsky[<<1, 23>>] # 0 /\ pi.out.imgminsky[<<2, 10>>] = 0

---------------------------------------------------------------------------
(* MultiSlitCoadd2d.get_brightest_obj.  An exposure is the list of its      *)
(* objects, each with its slit (from 0), its id on the slit (from 1) and    *)
(* the rms S/N that coadd1d.sn_weights returns for it.                      *)

NegInf == [inf |-> TRUE, v |-> 0]

Finite(x) == [inf |-> FALSE, v |-> x]

\* a < b on the S/N values, -inf below every number
snr_less(a, b) == IF b.inf THEN FALSE ELSE IF a.inf THEN TRUE ELSE a.v < b.v

\* np.argmax of a non-empty sequence: the first position of a largest entry
np_argmax(xs) ==
    CHOOSE i \in 1..Len(xs) :
        /\ \A j \in 1..Len(xs) : ~snr_less(xs[i], xs[j])
        /\ \A j \in 1..(i - 1) : snr_less(xs[j], xs[i])

\* sobjs[sobjs.slitid == islit]
on_slit(sobjs, islit) == SelectSeq(sobjs, LAMBDA o : o.slitid = islit)

\* slit_snr_max[islit, iexp] and objid_max[islit, iexp] after the loops
slit_best(sobjs, islit) ==
    LET these == on_slit(sobjs, islit)
    IN  IF these = <<>> THEN [snr |-> NegInf, objid |-> 0]
        ELSE LET imax == np_argmax([k \in 1..Len(these) |-> Finite(these[k].sn)])
             IN  [snr |-> Finite(these[imax].sn), objid |-> these[imax].objid]

\* np.mean(slit_snr_max, axis=1) for one slit, times nexp
slit_snr_sum(specobjs_list, islit) ==
    IF \E iexp \in 1..Len(specobjs_list) : slit_best(specobjs_list[iexp], islit).snr.inf
    THEN NegInf
    ELSE Finite(SumFn([iexp \in 1..Len(specobjs_list) |-> slit_best(specobjs_list[iexp], islit).snr.v],
                      1..Len(specobjs_list)))

get_brightest_obj(specobjs_list, nslits) ==
    IF specobjs_list[1] = <<>> THEN [status |-> "IndexError"]
    ELSE LET slit_snr == [s \in 1..nslits |-> slit_snr_sum(specobjs_list, s - 1)]
             slitid == np_argmax(slit_snr) - 1
         IN  IF slit_snr[slitid + 1].inf THEN [status |-> "fatal"]
             ELSE [status |-> "ok", slitid |-> slitid,
                   objid |-> [iexp \in 1..Len(specobjs_list) |->
                                 slit_best(specobjs_list[iexp], slitid).objid],
                   snr_bar |-> [iexp \in 1..Len(specobjs_list) |->
                                   slit_best(specobjs_list[iexp], slitid).snr.v]]

\* the S/N values of the objects of one slit, in object order
SlitObjects == {<<>>, <<1>>, <<2>>, <<1, 2>>, <<2, 1>>, <<2, 2>>}

SlitSobjs(islit, sns) == [k \in 1..Len(sns) |-> [slitid |-> islit, objid |-> k, sn |-> sns[k]]]

Exposures == {SlitSobjs(0, a) \o SlitSobjs(1, b) : a, b \in SlitObjects}

GetBrightestObj ==
    \E nexp \in 1..MaxExp :
      \E specobjs_list \in [1..nexp -> Exposures] :
        /\ bo = Idle
        /\ bo' = [op |-> "get_brightest_obj", in |-> specobjs_list,
                  out |-> get_brightest_obj(specobjs_list, 2)]
        /\ UNCHANGED <<vars1, vars2, ls, gr, pi>>

SpecBrightest == Init /\ [][GetBrightestObj]_vars

boCalled == bo.op = "get_brightest_obj"

boExps == 1..Len(bo.in)

boSns(iexp, islit) == {on_slit(bo.in[iexp], islit)[k].sn : k \in 1..Len(on_slit(bo.in[iexp], islit))}

boComplete(islit) == \A iexp \in boExps : boSns(iexp, islit) # {}

boMaxSum(islit) == SumFn([iexp \in boExps |-> SetMax(boSns(iexp, islit))], boExps)

boBrightest ==
    /\ boComplete(bo.out.slitid)
    /\ \A s \in 0..1 : boComplete(s) => boMaxSum(s) <= boMaxSum(bo.out.slitid)
    /\ \A iexp \in boExps :
          \E o \in {on_slit(bo.in[iexp], bo.out.slitid)[k] : k \in 1..Len(on_slit(bo.in[iexp], bo.out.slitid))} :
              o.objid = bo.out.objid[iexp] /\ o.sn = SetMax(boSns(iexp, bo.out.slitid))

\* C28: get_brightest_obj returns, when it succeeds, a slit with an object
\* in every exposure whose mean over exposures of the per-exposure maximum
\* S/N is the largest among the slits, with the id of the highest-S/N object
\* on it for each exposure; it ends in a fatal error exactly when no slit has
\* an object in every exposure.
C28_BrightestSlit ==
    boCalled =>
        /\ bo.out.status = "ok" => boBrightest
        /\ bo.out.status = "fatal" <=> ~(\E s \in 0..1 : boComplete(s))

\* the same outcome, the first exposure holding an object
boOutcome ==
    (boCalled /\ bo.in[1] # <<>>) =>
        /\ bo.out.status = "ok" => boBrightest
        /\ bo.out.status = "fatal" <=> ~(\E s \in 0..1 : boComplete(s))
        /\ bo.out.status \in {"ok", "fatal"}


cdConstructed == cd # Idle /\ cd.pc \in {"done", "coadded"}

cdAutoBranch == py_in(AUTO, cd.in.weights).status = "ok" /\ py_in(AUTO, cd.in.weights).v

\* C30: for every successfully constructed driver automatic weighting means
\* the brightest-object search has run: a MultiSlit driver reaches the
\* 'auto' branch of parse_weights only with slitid_bri and objid_bri set, an
\* Echelle driver with use_weights = 'auto_echelle' has objid_bri set and
\* offsets None, coadd() hands optimal_weights a defined object id, and the
\* Echelle reference-trace call gets exactly one of offsets and objid.
C30_AutoImpliesBrightest ==
    cdConstructed =>
        /\ (cd.in.family = "MultiSlit" /\ cdAutoBranch)
              => (~cd.slitid_bri.is_none /\ ~cd.objid_bri.is_none)
        /\ (cd.in.family = "Echelle" /\ is_str(cd.use_weights, AUTO_ECHELLE))
              => (~cd.objid_bri.is_none /\ cd.offsets.is_none)
        /\ cd.in.family = "Echelle" => (cd.offsets.is_none # cd.objid_bri.is_none)
        /\ cd.pc = "coadded" =>
              /\ py_in(AUTO_ECHELLE, cd.use_weights).v => ~cd.optimal_objid.is_none
              /\ cd.ref_trace = "ok"

\* an Echelle driver built with weights 'auto' and no offsets, after coadd()
C30_Witness ==
    /\ cd # Idle /\ cd.pc = "coadded" /\ cd.in.family = "Echelle"
    /\ is_str(cd.in.weights, AUTO) /\ is_str(cd.use_weights, AUTO_ECHELLE)
    /\ cd.in.offsets.is_none /\ ~cd.optimal_objid.is_none
    /\ cd.ref_trace = "ok"

===========================================================================
